---- MODULE Spec2Model ----
(***************************************************************************)
(* TofuApp: the persistence singleton (src/data_manager.py, DataManager).   *)
(*                                                                         *)
(* The state is the class-level singleton bookkeeping, the one SQLite       *)
(* connection and the tables it owns.  Every public method is one action;   *)
(* the action records the call, its outcome and the data_changed signals    *)
(* it emitted in the observation variables last and emitted.                *)
(*                                                                         *)
(* Abstractions: a table is the sequence (autoincrement tables) or set      *)
(* (keyed tables) of its rows; a day is its index (strftime("%Y%m%d") is    *)
(* injective on days); a timestamp is the reading of a clock that advances  *)
(* by one on every datetime.now() call; uuid4() is any member of a small    *)
(* pool.  Of the equipment columns, description_en, design_temperature and  *)
(* other_fields are left out: they are filled as name and design_pressure   *)
(* are.                                                                     *)
(*                                                                         *)
(* Around the singleton: three calculator panels with their reports, the    *)
(* Engineering Calculation Hub, the shell window's construction and close,  *)
(* the process-design manager, widget and data adapter, the basket          *)
(* filter's shell sizing and the fire-hydrant form.  A user action is one   *)
(* action of the model, its inputs the texts and answers the user gives.    *)
(* Each subsystem has its own specification over the same state.            *)
(***************************************************************************)
EXTENDS Integers, Sequences, FiniteSets, TLC

VARIABLES
    instance,       \* DataManager._instance: NoObject or the object's identity
    initialized,    \* DataManager._initialized
    objects,        \* number of objects allocated by super().__new__
    db_file,        \* self.db_file
    conn,           \* self.conn: "none" (None), "open" or "closed"
    connects,       \* number of sqlite3.connect calls made so far
    today,          \* the calendar day datetime.now() falls on
    now,            \* the clock datetime.now() reads
    project_info,   \* table project_info: sequence of rows
    report_counter, \* table report_counter: sequence of rows
    settings,       \* table settings: key -> value
    equipment,      \* table equipment: set of rows, keyed by equipment_id
    materials,      \* table materials: sequence of rows
    msds_documents, \* table msds_documents: sequence of rows
    projects,       \* table projects: sequence of rows
    equipment_name_mapping, \* table equipment_name_mapping: chinese -> english
    last,           \* the last call: [op, arg, raised, ret]
    emitted,        \* the data_changed signals emitted by the last call
    calls,          \* history: get_next_report_number calls made so far today
    pristine,       \* history: the counter was written by get_next_report_number only
    saved,          \* history: the last successful update_project_info argument
    panels,         \* each calculator panel's result_text and selection_text
    files,          \* the paths of the report files written so far
    hub,            \* the calculation hub's nav_list, content_stack and pages
    shell,          \* the main window: time_timer, modules and the close event
    mode_combo,     \* the heat-exchanger panel's mode_combo.currentIndex()
    tab_widget,     \* the process-design widget's tabs, in order
    hydrant         \* the fire-hydrant panel: its form and the total flow shown

vars == << instance, initialized, objects, db_file, conn, connects, today, now,
           project_info, report_counter, settings, equipment, materials,
           msds_documents, projects, equipment_name_mapping, last, emitted, calls, pristine, saved,
           panels, files, hub, shell, mode_combo, tab_widget, hydrant >>

singletonVars == << instance, initialized, objects, db_file, conn, connects >>
clockVars     == << today, now >>
tableVars     == << project_info, report_counter, settings, equipment, materials,
                    msds_documents, projects, equipment_name_mapping >>
historyVars   == << calls, pristine, saved >>
appVars       == << panels, files, hub, shell, mode_combo, tab_widget, hydrant >>

(***************************************************************************)
(* Bounds of the model.                                                     *)
(***************************************************************************)
MaxDay == 3
MaxCount == 11
MaxClock == 3
MaxRows == 1

(***************************************************************************)
(* Values.                                                                  *)
(***************************************************************************)
NoObject == 0
\* The empty text "" in a date column (a day is its index, 1 and up).
NoDate == 0
\* Python None, as a method's return value.
None == "<None>"

Days == 1..MaxDay
DefaultDbFile == "tofu_data.db"
\* A path sqlite3.connect cannot open (a directory, a missing folder).
BadDbFiles == {"no_such_dir/x.db"}
DbFileArgs == {None} \cup BadDbFiles
Prefixes == {"PD", "HX"}
Texts == {"", "ACME"}

\* The dicts over keys: a dict carries any subset of them.
Dicts(keys, vals) == UNION {[s -> vals] : s \in SUBSET keys}

\* dict.get(key, default)
DictGet(d, k, default) == IF k \in DOMAIN d THEN d[k] ELSE default

Call(op, arg, raised, ret) == [op |-> op, arg |-> arg, raised |-> raised, ret |-> ret]
\* A call that also changed the dict it was given: out is the dict afterwards.
CallOut(op, arg, ret, out) ==
    [op |-> op, arg |-> arg, raised |-> FALSE, ret |-> ret, out |-> out]

(***************************************************************************)
(* Singleton lifecycle.                                                     *)
(***************************************************************************)
\* __new__: allocate only while no instance exists.
NewObject(inst, n) == IF inst = NoObject THEN n + 1 ELSE inst

\* sqlite3.connect inside _init_database: an exception is swallowed and
\* self.conn stays None.
Connect(f) == IF f \in BadDbFiles THEN "none" ELSE "open"

\* A variant that initializes on every construction.
RunsInit_Always(done) == TRUE

\* __init__ runs its body only while _initialized is False.
RunsInit(done) == ~done

\* DataManager(db_file): __new__ followed by __init__.
Construction(f) ==
    /\ instance' = NewObject(instance, objects)
    /\ objects' = IF instance' # instance THEN objects + 1 ELSE objects
    /\ IF RunsInit(initialized)
          THEN /\ db_file' = IF f = None THEN DefaultDbFile ELSE f
               /\ conn' = Connect(db_file')
               /\ connects' = connects + 1
               /\ initialized' = TRUE
          ELSE UNCHANGED << db_file, conn, connects, initialized >>

Construct(f) ==
    /\ Construction(f)
    /\ last' = Call("DataManager", f, FALSE, instance')
    /\ emitted' = << >>
    /\ UNCHANGED << appVars, clockVars, tableVars, historyVars >>

GetInstance(f) ==
    /\ IF instance = NoObject
          THEN Construction(f)
          ELSE UNCHANGED singletonVars
    /\ last' = Call("get_instance", f, FALSE, instance')
    /\ emitted' = << >>
    /\ UNCHANGED << appVars, clockVars, tableVars, historyVars >>

\* close(): closes the connection if there is one; closing twice is harmless.
Close ==
    /\ instance # NoObject
    /\ initialized
    /\ conn' = IF conn = "none" THEN "none" ELSE "closed"
    /\ last' = Call("close", None, FALSE, None)
    /\ emitted' = << >>
    /\ UNCHANGED << appVars, instance, initialized, objects, db_file, connects,
                    clockVars, tableVars, historyVars >>

\* Midnight passes.
NextDay ==
    /\ today < MaxDay
    /\ today' = today + 1
    /\ last' = Call("midnight", None, FALSE, None)
    /\ emitted' = << >>
    /\ calls' = 0
    /\ UNCHANGED << appVars, singletonVars, now, tableVars, pristine, saved >>

\* A method can be called once the singleton has been constructed.
Constructed == instance # NoObject /\ initialized
\* self.conn.cursor() works on an open connection only: on None it raises
\* AttributeError, on a closed connection sqlite3.ProgrammingError.
Usable == conn = "open"

Lifecycle ==
    \/ \E f \in DbFileArgs : Construct(f)
    \/ \E f \in DbFileArgs : GetInstance(f)
    \/ Close

\* The shell's use of the singleton: one construction at start, close at exit.
Startup(f) == instance = NoObject /\ Construct(f)

(***************************************************************************)
(* Project info.                                                            *)
(***************************************************************************)
ProjectFields == {"company_name", "project_number", "project_name", "subproject_name"}
\* The dicts a caller may pass: each field a text, or not there.
ProjectInfoArgs == Dicts(ProjectFields, Texts)

\* The row update_project_info inserts.
ProjectInfoRow(info) == [k \in ProjectFields |-> DictGet(info, k, "")]

\* A variant that inserts without deleting.
ReplaceProjectInfo_NoDelete(rows, info) == Append(rows, ProjectInfoRow(info))

\* DELETE FROM project_info, then INSERT one row.
ReplaceProjectInfo(rows, info) == << ProjectInfoRow(info) >>

\* SELECT * FROM project_info LIMIT 1; each column is read `or ""`, which
\* leaves a text as it is (callers store texts, never NULL).
ReadProjectInfo(rows) ==
    IF rows # << >>
       THEN [k \in ProjectFields |-> rows[1][k]]
       ELSE [k \in ProjectFields |-> ""]

GetProjectInfo ==
    /\ Constructed
    /\ last' = IF Usable
                  THEN Call("get_project_info", None, FALSE, ReadProjectInfo(project_info))
                  ELSE Call("get_project_info", None, TRUE, None)
    /\ emitted' = << >>
    /\ UNCHANGED << appVars, singletonVars, clockVars, tableVars, historyVars >>

UpdateProjectInfo(info) ==
    /\ Constructed
    /\ IF Usable
          THEN /\ project_info' = ReplaceProjectInfo(project_info, info)
               /\ emitted' = << "project_info" >>
               /\ last' = Call("update_project_info", info, FALSE, TRUE)
               /\ saved' = info
          ELSE /\ last' = Call("update_project_info", info, FALSE, FALSE)
               /\ emitted' = << >>
               /\ UNCHANGED << project_info, saved >>
    /\ UNCHANGED << appVars, singletonVars, clockVars, report_counter, settings, equipment,
                    materials, msds_documents, projects, equipment_name_mapping, calls, pristine >>

(***************************************************************************)
(* Report counter.                                                          *)
(***************************************************************************)
\* The dicts a caller may pass to update_report_counter.
CounterArgs == Dicts({"date", "count"}, {1, 2})

\* SELECT * FROM report_counter LIMIT 1
ReadReportCounter(rows) ==
    IF rows # << >>
       THEN [date |-> rows[1].date, count |-> rows[1].count]
       ELSE [date |-> NoDate, count |-> 0]

\* The row update_report_counter inserts.
CounterRow(counter) ==
    [date  |-> DictGet(counter, "date", NoDate),
     count |-> DictGet(counter, "count", 1)]

\* A variant that inserts without deleting.
ReplaceReportCounter_NoDelete(rows, counter) == Append(rows, CounterRow(counter))

\* DELETE FROM report_counter, then INSERT one row.
ReplaceReportCounter(rows, counter) == << CounterRow(counter) >>

\* A variant that never starts a new day at 1.
NextCounter_NoReset(counter, day) == [date |-> day, count |-> counter.count + 1]

\* The counter get_next_report_number moves to.
NextCounter(counter, day) ==
    IF counter.date # day
       THEN [date |-> day, count |-> 1]
       ELSE [counter EXCEPT !.count = counter.count + 1]

\* The decimal digits of n, most significant first.
RECURSIVE Digits(_)
Digits(n) == IF n < 10 THEN << n >> ELSE Digits(n \div 10) \o << n % 10 >>

\* Left-pad with zeros to width w.
RECURSIVE ZeroPad(_, _)
ZeroPad(s, w) == IF Len(s) >= w THEN s ELSE ZeroPad(<< 0 >> \o s, w)

\* f"{count:03d}"
Format03d(n) == ZeroPad(Digits(n), 3)

\* f"{prefix}-{today}-{count:03d}", kept as its three parts.
ReportNumber(prefix, day, count) ==
    [prefix |-> prefix, date |-> day, seq |-> Format03d(count)]

GetReportCounter ==
    /\ Constructed
    /\ last' = IF Usable
                  THEN Call("get_report_counter", None, FALSE, ReadReportCounter(report_counter))
                  ELSE Call("get_report_counter", None, TRUE, None)
    /\ emitted' = << >>
    /\ UNCHANGED << appVars, singletonVars, clockVars, tableVars, historyVars >>

UpdateReportCounter(counter) ==
    /\ Constructed
    /\ IF Usable
          THEN /\ report_counter' = ReplaceReportCounter(report_counter, counter)
               /\ emitted' = << "report_counter" >>
               /\ last' = Call("update_report_counter", counter, FALSE, TRUE)
               /\ pristine' = FALSE
          ELSE /\ last' = Call("update_report_counter", counter, FALSE, FALSE)
               /\ emitted' = << >>
               /\ UNCHANGED << report_counter, pristine >>
    /\ UNCHANGED << appVars, singletonVars, clockVars, project_info, settings, equipment,
                    materials, msds_documents, projects, equipment_name_mapping, calls, saved >>

\* get_next_report_number: get_report_counter is called outside any try, so
\* its exception propagates; update_report_counter's result is ignored.
GetNextReportNumber(prefix) ==
    /\ Constructed
    /\ calls < MaxCount
    /\ calls' = calls + 1
    /\ IF Usable
          THEN LET counter == NextCounter(ReadReportCounter(report_counter), today)
               IN  /\ counter.count <= MaxCount
                   /\ report_counter' = ReplaceReportCounter(report_counter, counter)
                   /\ emitted' = << "report_counter" >>
                   /\ last' = Call("get_next_report_number", prefix, FALSE,
                                   ReportNumber(prefix, today, counter.count))
          ELSE /\ last' = Call("get_next_report_number", prefix, TRUE, None)
               /\ emitted' = << >>
               /\ UNCHANGED report_counter
    /\ UNCHANGED << appVars, singletonVars, clockVars, project_info, settings, equipment,
                    materials, msds_documents, projects, equipment_name_mapping, pristine, saved >>

(***************************************************************************)
(* Settings.  A text is the sequence of its characters; a value a caller    *)
(* passes is a text, an integer or a boolean.                               *)
(***************************************************************************)
SettingKeys == {"theme", "font_size"}
TextValue(chars) == [t |-> "str", v |-> chars]
IntValue(n) == [t |-> "int", v |-> n]
BoolValue(b) == [t |-> "bool", v |-> b]
SettingValues == {TextValue(<< "d", "a", "r", "k" >>), TextValue(<< "1", "2" >>),
                  IntValue(12), IntValue(7), BoolValue(TRUE)}
\* The dicts a caller may pass to update_settings.
SettingsArgs == Dicts(SettingKeys, SettingValues)

DigitChars == << "0", "1", "2", "3", "4", "5", "6", "7", "8", "9" >>

\* str(n) for n >= 0
RECURSIVE IntStr(_)
IntStr(n) ==
    IF n < 10 THEN << DigitChars[n + 1] >>
              ELSE IntStr(n \div 10) \o << DigitChars[(n % 10) + 1] >>

\* str(value)
PyStr(x) ==
    CASE x.t = "str"  -> x.v
      [] x.t = "int"  -> IntStr(x.v)
      [] x.t = "bool" -> IF x.v THEN << "T", "r", "u", "e" >>
                                ELSE << "F", "a", "l", "s", "e" >>

\* A variant that inserts or replaces without deleting first.
ReplaceSettings_NoDelete(tbl, m) ==
    [k \in DOMAIN tbl \cup DOMAIN m |-> IF k \in DOMAIN m THEN PyStr(m[k]) ELSE tbl[k]]

\* DELETE FROM settings, then INSERT (key, str(value)) for every item.
ReplaceSettings(tbl, m) == [k \in DOMAIN m |-> PyStr(m[k])]

\* SELECT key, value FROM settings, as a dict.
ReadSettings(tbl) == tbl

GetSettings ==
    /\ Constructed
    /\ last' = IF Usable
                  THEN Call("get_settings", None, FALSE, ReadSettings(settings))
                  ELSE Call("get_settings", None, TRUE, None)
    /\ emitted' = << >>
    /\ UNCHANGED << appVars, singletonVars, clockVars, tableVars, historyVars >>

UpdateSettings(m) ==
    /\ Constructed
    /\ IF Usable
          THEN /\ settings' = ReplaceSettings(settings, m)
               /\ emitted' = << "settings" >>
               /\ last' = Call("update_settings", m, FALSE, TRUE)
          ELSE /\ last' = Call("update_settings", m, FALSE, FALSE)
               /\ emitted' = << >>
               /\ UNCHANGED settings
    /\ UNCHANGED << appVars, singletonVars, clockVars, project_info, report_counter, equipment,
                    materials, msds_documents, projects, equipment_name_mapping, historyVars >>

(***************************************************************************)
(* Equipment.                                                               *)
(***************************************************************************)
EquipmentColumns ==
    {"equipment_id", "name", "design_pressure", "unique_code", "created_at", "updated_at"}

HexLower == << "0", "1", "2", "3", "4", "5", "6", "7", "8", "9",
               "a", "b", "c", "d", "e", "f" >>
HexUpper == << "0", "1", "2", "3", "4", "5", "6", "7", "8", "9",
               "A", "B", "C", "D", "E", "F" >>

\* The uuids uuid4() may return, each as its 32 hexadecimal digits.
UuidPool == {[i \in 1..32 |-> (5 * i + 3) % 16], [i \in 1..32 |-> (11 * i) % 16]}

\* uuid.hex
Hex(u) == [i \in 1..32 |-> HexLower[u[i] + 1]]

\* str.upper() of a text of hexadecimal digits
Upper(chars) ==
    [i \in DOMAIN chars |->
        HexUpper[CHOOSE d \in 1..16 : HexLower[d] = chars[i] \/ HexUpper[d] = chars[i]]]

\* f"EQ_{uuid.uuid4().hex[:8].upper()}"
GenId(u) == << "E", "Q", "_" >> \o Upper(SubSeq(Hex(u), 1, 8))

E1 == << "E", "1" >>
EquipmentIds == {E1} \cup {GenId(u) : u \in UuidPool}

Spaces == {" "}
\* str.strip()
RECURSIVE Strip(_)
Strip(chars) ==
    IF chars = << >> THEN chars
    ELSE IF Head(chars) \in Spaces THEN Strip(Tail(chars))
    ELSE IF chars[Len(chars)] \in Spaces THEN Strip(SubSeq(chars, 1, Len(chars) - 1))
    ELSE chars

\* The texts _safe_float reads as "no value", upper-cased.
NoValueTexts == {<< "N", "T" >>, << "N", "/", "A" >>, << "N", "A" >>,
                 << "N", "U", "L", "L" >>, << "-" >>, << "-", "-" >>, << >>}
Letters == [n |-> "N", t |-> "T", a |-> "A", u |-> "U", l |-> "L"]
\* str.upper() on the letters of those texts
UpperText(chars) ==
    [i \in DOMAIN chars |-> IF chars[i] \in DOMAIN Letters THEN Letters[chars[i]] ELSE chars[i]]

IsDigits(chars) == chars # << >> /\ \A i \in DOMAIN chars : \E d \in 1..10 : DigitChars[d] = chars[i]

\* float(text) on a text of decimal digits
RECURSIVE ParseDigits(_)
ParseDigits(chars) ==
    IF chars = << >>
       THEN 0
       ELSE 10 * ParseDigits(SubSeq(chars, 1, Len(chars) - 1))
            + (CHOOSE d \in 0..9 : DigitChars[d + 1] = chars[Len(chars)])

\* _safe_float(value, 0.0): a number is itself; a text is stripped, read as
\* the default when it stands for "no value", else parsed, the default on a
\* ValueError; anything else is the default.
SafeFloat(x) ==
    CASE x.t = "int" -> x.v
      [] x.t = "str" ->
            LET cleaned == Strip(x.v)
            IN  IF UpperText(cleaned) \in NoValueTexts THEN 0
                ELSE IF IsDigits(cleaned) THEN ParseDigits(cleaned)
                ELSE 0
      [] OTHER -> 0

\* The dicts a caller may pass to add_equipment.
FullEquipmentArgs ==
    [equipment_id : {E1}, name : {"tank"}, unique_code : {"U1"},
     design_pressure : {TextValue(<< " ", "1", "6" >>)}, created_at : {0}]
EquipmentArgs ==
    {[k \in ks |-> full[k]] :
        ks \in SUBSET {"equipment_id", "name", "unique_code", "design_pressure", "created_at"},
        full \in FullEquipmentArgs}

\* The first lines of add_equipment: the dict as it is once cleaned, given
\* an id and stamped; u is the uuid drawn, t the clock.
Stamped(d, u, t) ==
    [k \in DOMAIN d \cup {"design_pressure", "equipment_id", "updated_at", "created_at"} |->
        CASE k = "design_pressure" -> SafeFloat(DictGet(d, "design_pressure", IntValue(0)))
          [] k = "equipment_id" ->
                IF "equipment_id" \notin DOMAIN d \/ d["equipment_id"] = << >>
                   THEN GenId(u) ELSE d["equipment_id"]
          [] k = "updated_at" -> t
          [] k = "created_at" -> IF "created_at" \notin DOMAIN d THEN t + 1 ELSE d["created_at"]
          [] OTHER -> d[k]]

\* The number of datetime.now() calls add_equipment makes.
ClockReads(d) == IF "created_at" \notin DOMAIN d THEN 2 ELSE 1

\* The row add_equipment writes.
EquipmentRow(d) ==
    [equipment_id    |-> d["equipment_id"],
     name            |-> DictGet(d, "name", ""),
     design_pressure |-> d["design_pressure"],
     unique_code     |-> DictGet(d, "unique_code", ""),
     created_at      |-> d["created_at"],
     updated_at      |-> d["updated_at"]]

\* INSERT OR REPLACE: the rows that collide with the new one on the primary
\* key or on the UNIQUE column unique_code are deleted, then it is inserted.
InsertOrReplace(tbl, row) ==
    {r \in tbl : r.equipment_id # row.equipment_id /\ r.unique_code # row.unique_code}
        \cup {row}

\* SELECT * FROM equipment
GetEquipmentData ==
    /\ Constructed
    /\ last' = IF Usable
                  THEN Call("get_equipment_data", None, FALSE, equipment)
                  ELSE Call("get_equipment_data", None, TRUE, None)
    /\ emitted' = << >>
    /\ UNCHANGED << appVars, singletonVars, clockVars, tableVars, historyVars >>

AddEquipment(d, u) ==
    /\ Constructed
    /\ now + ClockReads(d) - 1 <= MaxClock
    /\ now' = now + ClockReads(d)
    /\ LET out == Stamped(d, u, now)
       IN  IF Usable
              THEN /\ equipment' = InsertOrReplace(equipment, EquipmentRow(out))
                   /\ emitted' = << "equipment" >>
                   /\ last' = CallOut("add_equipment", d, TRUE, out)
              ELSE /\ last' = CallOut("add_equipment", d, FALSE, out)
                   /\ emitted' = << >>
                   /\ UNCHANGED equipment
    /\ UNCHANGED << appVars, singletonVars, today, project_info, report_counter, settings,
                    materials, msds_documents, projects, equipment_name_mapping,
                    historyVars >>

\* The dicts a caller may pass to update_equipment; "type" is a key the
\* process-design layer sends and the table has no column for.
UpdateArgs ==
    {[k \in ks |-> full[k]] :
        ks \in SUBSET {"name", "unique_code", "type"},
        full \in [name : {"pump"}, unique_code : {"U1"}, type : {"vessel"}]}

\* The rows WHERE equipment_id = ? selects.
Matching(tbl, id) == {r \in tbl : r.equipment_id = id}

\* A variant that takes every statement to have hit a row.
NotFound_Never(rowcount) == FALSE

\* cursor.rowcount == 0
NotFound(rowcount) == rowcount = 0

\* UPDATE equipment SET key = ?, ... WHERE equipment_id = ?
Updated(tbl, id, upd) ==
    {IF r.equipment_id = id
        THEN [k \in DOMAIN r |-> IF k \in DOMAIN upd /\ k # "equipment_id" THEN upd[k] ELSE r[k]]
        ELSE r : r \in tbl}

\* The statement fails: a SET key that is no column (OperationalError), or a
\* unique_code another row holds (IntegrityError).
UpdateFails(tbl, id, upd) ==
    \/ \E k \in DOMAIN upd : k \notin EquipmentColumns
    \/ /\ "unique_code" \in DOMAIN upd
       /\ Matching(tbl, id) # {}
       /\ \E r \in tbl : r.equipment_id # id /\ r.unique_code = upd["unique_code"]

\* update_data always carries updated_at by the time the SET list is built,
\* so the early `return True` on an empty list is never taken.
UpdateEquipment(id, fields) ==
    /\ Constructed
    /\ now <= MaxClock
    /\ now' = now + 1
    /\ LET upd == [k \in DOMAIN fields \cup {"updated_at"} |->
                      IF k = "updated_at" THEN now ELSE fields[k]]
           arg == [id |-> id, fields |-> fields]
       IN  IF Usable /\ ~UpdateFails(equipment, id, upd)
                     /\ ~NotFound(Cardinality(Matching(equipment, id)))
              THEN /\ equipment' = Updated(equipment, id, upd)
                   /\ emitted' = << "equipment" >>
                   /\ last' = CallOut("update_equipment", arg, TRUE, upd)
              ELSE /\ last' = CallOut("update_equipment", arg, FALSE, upd)
                   /\ emitted' = << >>
                   /\ UNCHANGED equipment
    /\ UNCHANGED << appVars, singletonVars, today, project_info, report_counter, settings,
                    materials, msds_documents, projects, equipment_name_mapping,
                    historyVars >>

DeleteEquipment(id) ==
    /\ Constructed
    /\ LET arg == [id |-> id]
       IN  IF Usable /\ ~NotFound(Cardinality(Matching(equipment, id)))
              THEN /\ equipment' = equipment \ Matching(equipment, id)
                   /\ emitted' = << "equipment" >>
                   /\ last' = Call("delete_equipment", arg, FALSE, TRUE)
              ELSE /\ last' = Call("delete_equipment", arg, FALSE, FALSE)
                   /\ emitted' = << >>
                   /\ UNCHANGED equipment
    /\ UNCHANGED << appVars, singletonVars, clockVars, project_info, report_counter, settings,
                    materials, msds_documents, projects, equipment_name_mapping,
                    historyVars >>

(***************************************************************************)
(* Equipment name mapping, materials, MSDS documents, projects.             *)
(***************************************************************************)
ChineseNames == {"beng"}
EnglishNames == {"Pump", "Tank"}

\* INSERT OR REPLACE on the UNIQUE column chinese_name
PutMapping(tbl, cn, en) ==
    [k \in DOMAIN tbl \cup {cn} |-> IF k = cn THEN en ELSE tbl[k]]

\* DELETE FROM equipment_name_mapping WHERE chinese_name = ?
DropMapping(tbl, cn) == [k \in DOMAIN tbl \ {cn} |-> tbl[k]]

GetEquipmentNameMapping ==
    /\ Constructed
    /\ last' = IF Usable
                  THEN Call("get_equipment_name_mapping", None, FALSE, equipment_name_mapping)
                  ELSE Call("get_equipment_name_mapping", None, TRUE, None)
    /\ emitted' = << >>
    /\ UNCHANGED << appVars, singletonVars, clockVars, tableVars, historyVars >>

GetEnglishName(cn) ==
    /\ Constructed
    /\ last' = IF Usable
                  THEN Call("get_english_name", cn, FALSE,
                            DictGet(equipment_name_mapping, cn, ""))
                  ELSE Call("get_english_name", cn, TRUE, None)
    /\ emitted' = << >>
    /\ UNCHANGED << appVars, singletonVars, clockVars, tableVars, historyVars >>

AddEquipmentNameMapping(cn, en) ==
    /\ Constructed
    /\ IF Usable
          THEN /\ equipment_name_mapping' = PutMapping(equipment_name_mapping, cn, en)
               /\ emitted' = << "equipment_name_mapping" >>
               /\ last' = Call("add_equipment_name_mapping", << cn, en >>, FALSE, TRUE)
          ELSE /\ last' = Call("add_equipment_name_mapping", << cn, en >>, FALSE, FALSE)
               /\ emitted' = << >>
               /\ UNCHANGED equipment_name_mapping
    /\ UNCHANGED << appVars, singletonVars, clockVars, project_info, report_counter, settings,
                    equipment, materials, msds_documents, projects, historyVars >>

\* remove_equipment_name_mapping commits and emits whether or not a row matched.
RemoveEquipmentNameMapping(cn) ==
    /\ Constructed
    /\ IF Usable
          THEN /\ equipment_name_mapping' = DropMapping(equipment_name_mapping, cn)
               /\ emitted' = << "equipment_name_mapping" >>
               /\ last' = Call("remove_equipment_name_mapping", cn, FALSE, TRUE)
          ELSE /\ last' = Call("remove_equipment_name_mapping", cn, FALSE, FALSE)
               /\ emitted' = << >>
               /\ UNCHANGED equipment_name_mapping
    /\ UNCHANGED << appVars, singletonVars, clockVars, project_info, report_counter, settings,
                    equipment, materials, msds_documents, projects, historyVars >>

MaterialArgs == Dicts({"name", "properties"}, {"water"})
MsdsArgs == Dicts({"title", "file_path"}, {"water.pdf"})
ProjectArgs == Dicts({"name", "description"}, {"plant"})

\* INSERT INTO materials (name, properties): the id is the next autoincrement.
MaterialRow(rows, d) ==
    [id |-> Len(rows) + 1, name |-> DictGet(d, "name", ""),
     properties |-> DictGet(d, "properties", "{}")]

\* INSERT INTO msds_documents (title, file_path)
MsdsRow(rows, d) ==
    [id |-> Len(rows) + 1, title |-> DictGet(d, "title", ""),
     file_path |-> DictGet(d, "file_path", "")]

\* INSERT INTO projects (name, description)
ProjectRow(rows, d) ==
    [id |-> Len(rows) + 1, name |-> DictGet(d, "name", ""),
     description |-> DictGet(d, "description", "")]

\* add_material, add_msds_document and add_project commit and return True;
\* none of them emits data_changed.
AddMaterial(d) ==
    /\ Constructed
    /\ Len(materials) < MaxRows
    /\ IF Usable
          THEN /\ materials' = Append(materials, MaterialRow(materials, d))
               /\ last' = Call("add_material", d, FALSE, TRUE)
          ELSE /\ last' = Call("add_material", d, FALSE, FALSE)
               /\ UNCHANGED materials
    /\ emitted' = << >>
    /\ UNCHANGED << appVars, singletonVars, clockVars, project_info, report_counter, settings,
                    equipment, msds_documents, projects, equipment_name_mapping,
                    historyVars >>

AddMsdsDocument(d) ==
    /\ Constructed
    /\ Len(msds_documents) < MaxRows
    /\ IF Usable
          THEN /\ msds_documents' = Append(msds_documents, MsdsRow(msds_documents, d))
               /\ last' = Call("add_msds_document", d, FALSE, TRUE)
          ELSE /\ last' = Call("add_msds_document", d, FALSE, FALSE)
               /\ UNCHANGED msds_documents
    /\ emitted' = << >>
    /\ UNCHANGED << appVars, singletonVars, clockVars, project_info, report_counter, settings,
                    equipment, materials, projects, equipment_name_mapping,
                    historyVars >>

AddProject(d) ==
    /\ Constructed
    /\ Len(projects) < MaxRows
    /\ IF Usable
          THEN /\ projects' = Append(projects, ProjectRow(projects, d))
               /\ last' = Call("add_project", d, FALSE, TRUE)
          ELSE /\ last' = Call("add_project", d, FALSE, FALSE)
               /\ UNCHANGED projects
    /\ emitted' = << >>
    /\ UNCHANGED << appVars, singletonVars, clockVars, project_info, report_counter, settings,
                    equipment, materials, msds_documents, equipment_name_mapping,
                    historyVars >>

GetMaterials ==
    /\ Constructed
    /\ last' = IF Usable THEN Call("get_materials", None, FALSE, materials)
                         ELSE Call("get_materials", None, TRUE, None)
    /\ emitted' = << >>
    /\ UNCHANGED << appVars, singletonVars, clockVars, tableVars, historyVars >>

GetMsdsDocuments ==
    /\ Constructed
    /\ last' = IF Usable THEN Call("get_msds_documents", None, FALSE, msds_documents)
                         ELSE Call("get_msds_documents", None, TRUE, None)
    /\ emitted' = << >>
    /\ UNCHANGED << appVars, singletonVars, clockVars, tableVars, historyVars >>

GetProjects ==
    /\ Constructed
    /\ last' = IF Usable THEN Call("get_projects", None, FALSE, projects)
                         ELSE Call("get_projects", None, TRUE, None)
    /\ emitted' = << >>
    /\ UNCHANGED << appVars, singletonVars, clockVars, tableVars, historyVars >>

(***************************************************************************)
(* Calculator panels (src/modules/chemical_calculations/calculators).       *)
(*                                                                         *)
(* Three panels are modelled: "filter" (basket_filter_design_calculator),   *)
(* "heat" (heat_exchanger_calculator, modes 0 and 3) and "area"             *)
(* (heat_exchanger_area_calculator, direct and selection modes).  The user  *)
(* filling the form and pressing the button is one action; the texts of the *)
(* form are its input.  A rendered text is the sequence of its sections,    *)
(* each the section's title (given in English) and the values printed in    *)
(* it; the empty text is << >>.  Floating-point formatting is left out.     *)
(***************************************************************************)
Calculators == {"filter", "heat", "area"}

\* The outcome of a user action, as last: shown is the message boxes and
\* dialogs it put on the screen, in order.
Shown(op, arg, ret, dialogs) ==
    [op |-> op, arg |-> arg, raised |-> FALSE, ret |-> ret, shown |-> dialogs]

\* The form texts the user may leave in a panel when pressing "calculate".
Inputs(c) ==
    CASE c = "filter" ->
            [fluid_name : {<< >>, << "w" >>},
             flow_rate : {<< >>, << "0" >>, << "9" >>, << "x" >>}]
      [] c = "heat" ->
            [cold_flow : {<< >>, << "0" >>},
             hot_t2 : {<< >>, << "9", "0" >>},
             cold_t1 : {<< >>, << "6", "0" >>, << "7", "0" >>}]
      [] c = "area" ->
            [mode : {"direct", "selection"}, value : {<< >>, << "0" >>, << "9" >>}]

\* Basket filter, get_input_values and perform_design_calculation, over the
\* fields fluid_name and flow_rate (the other fields hold valid numbers):
\* float(text or 0) raises ValueError on a malformed number, which
\* get_input_values answers with a warning; a required field that is empty
\* or 0 is answered with a warning naming it; else both panels are rendered.
FilterCalculation(in) ==
    IF in.flow_rate # << >> /\ ~IsDigits(in.flow_rate)
       THEN [ok |-> FALSE, shown |-> << "warning" >>]
       ELSE LET inputs == [fluid_name |-> Strip(in.fluid_name),
                           flow_rate |-> IF in.flow_rate = << >> THEN 0
                                         ELSE ParseDigits(in.flow_rate)]
            IN  IF inputs.fluid_name = << >> \/ inputs.flow_rate = 0
                   THEN [ok |-> FALSE, shown |-> << "warning" >>]
                   ELSE [ok |-> TRUE, shown |-> << >>,
                         result |->
                           [result_text |->
                               << [title |-> "design parameters", body |-> inputs],
                                  [title |-> "calculation result", body |-> inputs],
                                  [title |-> "calculation notes", body |-> inputs] >>,
                            selection_text |->
                               << [title |-> "selection result", body |-> inputs],
                                  [title |-> "remarks", body |-> inputs] >>]]

\* The defaults calculate_mode_3 passes to get_input_value.
Mode3Defaults ==
    [hot_flow |-> 5000, hot_t1 |-> 90, hot_t2 |-> 60, cold_flow |-> 10000, cold_t1 |-> 20]

\* get_input_value(key, default): float(text) of the stripped text when it
\* is not empty and parses, the default otherwise.
GetInputValue(chars, default) ==
    IF IsDigits(Strip(chars)) THEN ParseDigits(Strip(chars)) ELSE default

\* Heat exchanger, calculate over calculate_mode_3, both specific heats left
\* at their common default:
\*   cold_t2 = cold_t1 + hot_flow * (hot_t1 - hot_t2) / cold_flow,
\*   delta_t1 = hot_t1 - cold_t2, delta_t2 = hot_t2 - cold_t1,
\*   lmtd = delta_t1 if they are equal,
\*          else (delta_t1 - delta_t2) / math.log(delta_t1 / delta_t2).
\* d1 and d2 are delta_t1 and delta_t2 times cold_flow.  A division by zero
\* raises ZeroDivisionError, math.log of a ratio <= 0 raises ValueError;
\* calculate catches both and shows a critical box.
HeatCalculation(in) ==
    LET v == [k \in DOMAIN Mode3Defaults |->
                 GetInputValue(DictGet(in, k, << >>), Mode3Defaults[k])]
        heat == v.hot_flow * (v.hot_t1 - v.hot_t2)
        d1 == (v.hot_t1 - v.cold_t1) * v.cold_flow - heat
        d2 == (v.hot_t2 - v.cold_t1) * v.cold_flow
        fault == \/ v.cold_flow = 0
                 \/ d1 # d2 /\ (d2 = 0 \/ d1 = 0 \/ (d1 < 0) # (d2 < 0))
    IN  IF v.hot_t2 >= v.hot_t1 THEN [ok |-> FALSE, shown |-> << "warning" >>]
        ELSE IF fault THEN [ok |-> FALSE, shown |-> << "critical" >>]
        ELSE [ok |-> TRUE, shown |-> << >>,
              result |->
                [result_text |->
                    << [title |-> "input parameters", mode |-> 3, body |-> v],
                       [title |-> "calculation result", body |-> v],
                       [title |-> "calculation notes", body |-> v] >>,
                 selection_text |-> << >>]]

\* Heat exchanger, calculate over calculate_mode_0, steam pressure and
\* specific heat left at their defaults: a cold outlet not above the cold
\* inlet is answered with a warning; else the steam flow is rendered.  The
\* latent heat is a positive table value, so nothing divides by zero.  A text
\* given for a field this mode's form does not have is not read.
HeatCalculation0(in) ==
    LET defaults == [cold_flow |-> 10000, cold_t1 |-> 20, cold_t2 |-> 60]
        v == [k \in DOMAIN defaults |->
                 GetInputValue(DictGet(in, k, << >>), defaults[k])]
    IN  IF v.cold_t2 <= v.cold_t1 THEN [ok |-> FALSE, shown |-> << "warning" >>]
        ELSE [ok |-> TRUE, shown |-> << >>,
              result |->
                [result_text |->
                    << [title |-> "input parameters", mode |-> 0, body |-> v],
                       [title |-> "calculation result", body |-> v],
                       [title |-> "calculation notes", body |-> v] >>,
                 selection_text |-> << >>]]

\* Heat-exchanger area, calculate over calculate_mode_0 ("direct", value is
\* heat_load) and perform_intelligent_selection ("selection", value is
\* flow_rate); the other fields hold valid numbers.  validate_inputs
\* refuses a missing value with a warning.  In direct mode a heat load of 0
\* gives a theoretical area of 0 and A_design / A_theoretical raises
\* ZeroDivisionError, which calculate catches.  The selection text has no
\* "calculation result" section.
AreaCalculation(in) ==
    LET v == [mode |-> in.mode, value |-> GetInputValue(in.value, 0)]
    IN  IF Strip(in.value) = << >> THEN [ok |-> FALSE, shown |-> << "warning" >>]
        ELSE IF in.mode = "direct" /\ v.value = 0
                THEN [ok |-> FALSE, shown |-> << "critical" >>]
        ELSE [ok |-> TRUE, shown |-> << >>,
              result |->
                [result_text |->
                    IF in.mode = "direct"
                       THEN << [title |-> "input parameters", body |-> v],
                               [title |-> "calculation result", body |-> v],
                               [title |-> "calculation notes", body |-> v] >>
                       ELSE << [title |-> "operating conditions", body |-> v],
                               [title |-> "recommended types", body |-> v],
                               [title |-> "selection advice", body |-> v] >>,
                 selection_text |-> << >>]]

Calculation(c, in) ==
    CASE c = "filter" -> FilterCalculation(in)
      [] c = "heat" -> IF mode_combo = 3 THEN HeatCalculation(in)
                       ELSE HeatCalculation0(in)
      [] c = "area" -> AreaCalculation(in)

\* A variant that blanks the panel when the calculation did not finish.
Displayed_Blanked(panel, outcome) ==
    IF outcome.ok THEN outcome.result
                  ELSE [result_text |-> << >>, selection_text |-> << >>]

\* The panel after the action: setText is the last statement of every
\* calculation, so a calculation that did not finish leaves the panel alone.
Displayed(panel, outcome) == IF outcome.ok THEN outcome.result ELSE panel

\* The user picks mode m of the heat exchanger: on_mode_changed rebuilds the
\* input form; the result panel keeps its text.
SelectMode(m) ==
    /\ m # mode_combo
    /\ mode_combo' = m
    /\ last' = Call("setCurrentIndex", m, FALSE, None)
    /\ emitted' = << >>
    /\ UNCHANGED << singletonVars, clockVars, tableVars, historyVars, panels, files, hub,
                    shell, tab_widget, hydrant >>

\* The "calculate" button of panel c.
Calculate(c, in) ==
    /\ LET outcome == Calculation(c, in)
       IN  /\ panels' = [panels EXCEPT ![c] = Displayed(@, outcome)]
           /\ last' = Shown("calculate", [calc |-> c, in |-> in], None, outcome.shown)
    /\ emitted' = << >>
    /\ UNCHANGED << singletonVars, clockVars, tableVars, historyVars, files, hub, shell,
                    mode_combo, tab_widget, hydrant >>

(***************************************************************************)
(* Calculation reports: get_project_info, generate_report and               *)
(* download_txt_report of the calculator panels.  "filter" and "heat" share *)
(* one project-info dialog; "area" has a dialog of its own.  The time of    *)
(* day printed in the header is left out.                                   *)
(***************************************************************************)
MaxReports == 2

\* The prefix a panel passes to get_next_report_number.
ReportPrefix == [filter |-> "FILTER", heat |-> "HEAT"]

\* What the user does with one project-info dialog: reject it, or accept it
\* with these texts left in its fields; edited tells that the user typed
\* over the report number the dialog came up with.
Entries ==
    {[accept |-> FALSE]}
      \cup [accept : {TRUE}, company_name : {<< " ", "A" >>}, project_number : {<< >>},
            project_name : {<< >>, << "P" >>}, subproject_name : {<< "S" >>},
            edited : BOOLEAN]

\* The answers to the dialogs one get_project_info call puts up: the shared
\* dialog comes up again after each acceptance with an empty project name.
Dialogues(c) ==
    LET again(a) == c # "area" /\ a.accept /\ Strip(a.project_name) = << >>
    IN  {<< a >> : a \in {e \in Entries : ~again(e)}}
          \cup {<< a, b >> : a \in {e \in Entries : again(e)},
                             b \in {e \in Entries : ~again(e)}}

\* get_project_info of "filter" and "heat" over an open connection, rows and
\* crows being the project_info and report_counter tables: every dialog is
\* preceded by get_project_info and get_next_report_number(prefix) on the
\* singleton; get_info strips the fields; an empty project name is answered
\* with a warning and the method calls itself; update_project_info stores
\* the four header fields.  (The prefill of the fields is subsumed by the
\* texts the user leaves in them.)
RECURSIVE SharedProjectInfo(_, _, _, _)
SharedProjectInfo(prefix, rows, crows, d) ==
    LET counter == NextCounter(ReadReportCounter(crows), today)
        number == ReportNumber(prefix, today, counter.count)
        counted == ReplaceReportCounter(crows, counter)
        a == Head(d)
        info == [k \in ProjectFields \cup {"report_number"} |->
                    IF k # "report_number" THEN Strip(a[k])
                    ELSE IF a.edited THEN [number EXCEPT !.seq = << 9, 9, 9 >>]
                    ELSE number]
    IN  IF ~a.accept
           THEN [returned |-> FALSE, rows |-> rows, crows |-> counted,
                 shown |-> << "project_info: rejected" >>, minted |-> << number >>]
        ELSE IF Strip(a.project_name) = << >>
           THEN LET again == SharedProjectInfo(prefix, rows, counted, Tail(d))
                IN  [again EXCEPT
                        !.shown = << "project_info: accepted", "warning" >> \o @,
                        !.minted = << number >> \o @]
        ELSE [returned |-> TRUE, info |-> info,
              rows |-> ReplaceProjectInfo(rows, [k \in ProjectFields |-> info[k]]),
              crows |-> counted,
              shown |-> << "project_info: accepted" >>, minted |-> << number >>]

\* A variant that answers a rejected dialog with the fixed texts.
AreaProjectInfo_Defaults(rows, crows, d) ==
    [returned |-> TRUE,
     info |-> [company_name |-> << "-" >>, project_name |-> << "H", "E" >>,
               report_number |-> ReportNumber("HE", today, 1)],
     rows |-> rows, crows |-> crows,
     shown |-> << IF Head(d).accept THEN "project_info: accepted"
                                   ELSE "project_info: rejected" >>,
     minted |-> << >>]

\* get_project_info of "area": a dialog with company, project, designer and
\* date; an empty field is returned as a fixed text; the singleton is not
\* touched.  report_number is the number generate_report prints for this
\* panel, HE-<today>-001, which comes from no counter.
AreaProjectInfo(rows, crows, d) ==
    LET a == Head(d)
        or(text, default) == IF Strip(text) = << >> THEN default ELSE Strip(text)
    IN  IF a.accept
           THEN [returned |-> TRUE,
                 info |-> [company_name |-> or(a.company_name, << "-" >>),
                           project_name |-> or(a.project_name, << "H", "E" >>),
                           report_number |-> ReportNumber("HE", today, 1)],
                 rows |-> rows, crows |-> crows,
                 shown |-> << "project_info: accepted" >>, minted |-> << >>]
           ELSE [returned |-> FALSE, rows |-> rows, crows |-> crows,
                 shown |-> << "project_info: rejected" >>, minted |-> << >>]

\* generate_report's test that the panel holds a calculation: the text is
\* not empty and holds one of the panel's marker titles.
HasCalculated(c, panel) ==
    LET has(t) == \E i \in DOMAIN panel.result_text : panel.result_text[i].title = t
    IN  CASE c = "filter" -> /\ panel.result_text # << >>
                             /\ panel.selection_text # << >>
                             /\ has("calculation result") \/ has("design parameters")
          [] c = "heat" -> /\ panel.result_text # << >>
                           /\ has("calculation result") \/ has("input parameters")
          [] c = "area" -> panel.result_text # << >> /\ has("calculation result")

\* generate_report of panel c under dialogue d: the report, or none with a
\* warning when nothing was calculated, or none when get_project_info
\* returned none (a rejected dialog, or an exception of the singleton, which
\* get_project_info catches before any dialog is up).  The report is the
\* header (which, for "heat", names mode_combo.currentText() as it is now),
\* the panel's texts, the project-info section, the report-identity
\* section and the footer.
Generated(c, d) ==
    IF ~HasCalculated(c, panels[c])
       THEN [returned |-> FALSE, rows |-> project_info, crows |-> report_counter,
             shown |-> << "warning" >>, minted |-> << >>]
       ELSE LET got == IF c = "area" THEN AreaProjectInfo(project_info, report_counter, d)
                       ELSE IF Usable
                          THEN SharedProjectInfo(ReportPrefix[c], project_info,
                                                 report_counter, d)
                       ELSE [returned |-> FALSE, rows |-> project_info,
                             crows |-> report_counter, shown |-> << >>, minted |-> << >>]
            IN  IF ~got.returned
                   THEN got
                   ELSE [returned |-> TRUE, info |-> got.info,
                         rows |-> got.rows, crows |-> got.crows,
                         shown |-> got.shown, minted |-> got.minted,
                         report |->
                            << IF c = "heat"
                                  THEN [title |-> "header", body |-> c,
                                        mode |-> mode_combo]
                                  ELSE [title |-> "header", body |-> c] >>
                            \o panels[c].result_text \o panels[c].selection_text
                            \o << [title |-> "project info",
                                   body |-> [fields |-> [k \in DOMAIN got.info
                                                              \ {"report_number"} |->
                                                           got.info[k]],
                                             date |-> today]],
                                  [title |-> "report identity",
                                   body |-> got.info.report_number],
                                  [title |-> "footer", body |-> c] >>]

\* What generate_report does to the singleton's tables and signals.
Reported(g) ==
    /\ ReadReportCounter(g.crows).count <= MaxReports
    /\ project_info' = g.rows
    /\ report_counter' = g.crows
    /\ calls' = calls + Len(g.minted)
    /\ saved' = IF g.returned /\ g.minted # << >>
                   THEN [k \in ProjectFields |-> g.info[k]] ELSE saved
    /\ emitted' = [i \in 1..Len(g.minted) |-> "report_counter"]
                    \o (IF g.returned /\ g.minted # << >>
                           THEN << "project_info" >> ELSE << >>)
    /\ UNCHANGED << singletonVars, clockVars, settings, equipment, materials,
                    msds_documents, projects, equipment_name_mapping, pristine,
                    panels, hub, shell, mode_combo, tab_widget, hydrant >>

GenerateReport(c, d) ==
    /\ Constructed
    /\ LET g == Generated(c, d)
       IN  /\ Reported(g)
           /\ last' = [op |-> "generate_report", arg |-> [calc |-> c, answers |-> d],
                       raised |-> FALSE,
                       ret |-> IF g.returned THEN g.report ELSE None,
                       got |-> g, written |-> FALSE]
    /\ UNCHANGED files

\* download_txt_report: generate_report, then, if there is a report, the
\* save-file dialog, and the report (last.got.report) written to the path it
\* returned (p; "" when the user rejected it).
DownloadTxtReport(c, d, p) ==
    /\ Constructed
    /\ LET g == Generated(c, d)
           write == g.returned /\ p # ""
       IN  /\ Reported(g)
           /\ files' = IF write THEN files \cup {p} ELSE files
           /\ last' = [op |-> "download_txt_report", arg |-> [calc |-> c, answers |-> d],
                       raised |-> FALSE, ret |-> None, got |-> g, written |-> write]

(***************************************************************************)
(* The Engineering Calculation Hub (chemical_calculations_widget.py).       *)
(* The registry is cut to three of its entries; a page is the widget put on *)
(* the content stack, and whether an entry's file loads and its class       *)
(* constructs is the environment's choice (broken).                         *)
(***************************************************************************)
\* page_configs: display title, class name, "supports data_manager".
Registry ==
    << [title |-> "basket filter", calculator_name |-> "BasketFilter",
        supports_data_manager |-> TRUE],
       [title |-> "pressure pipe definition", calculator_name |-> "PressurePipeDefinition",
        supports_data_manager |-> FALSE],
       [title |-> "insulation thickness", calculator_name |-> "InsulationThicknessCalculator",
        supports_data_manager |-> FALSE] >>

\* create_calculator_widget: the calculator, given the singleton when the
\* entry supports it and the hub has one; any exception on the way is caught
\* and answered with create_placeholder_widget(calculator_name).  It never
\* raises.
CreateCalculatorWidget(entry, fails, dm) ==
    [raised |-> FALSE,
     widget |-> IF fails
                   THEN [kind |-> "placeholder", label |-> entry.calculator_name,
                         data_manager |-> NoObject]
                   ELSE [kind |-> "calculator", label |-> entry.calculator_name,
                         data_manager |-> IF entry.supports_data_manager THEN dm
                                          ELSE NoObject]]

\* A variant that adds the navigation entry only.
AddPage_NavOnly(h, title, widget) == [h EXCEPT !.nav_list = Append(@, title)]

\* add_page: one more navigation entry, stack widget and page.
AddPage(h, title, widget) ==
    [h EXCEPT !.nav_list = Append(@, title),
              !.content_stack = Append(@, widget),
              !.pages = Append(@, widget)]

\* The loop of add_calculator_pages from entry i on: a page per entry, the
\* error page under the title marked "(error)" should the creation raise.
RECURSIVE AddPages(_, _, _, _)
AddPages(h, i, broken, dm) ==
    IF i > Len(Registry)
       THEN h
       ELSE LET made == CreateCalculatorWidget(Registry[i], i \in broken, dm)
                next == IF made.raised
                           THEN AddPage(h, Registry[i].title \o " (error)",
                                        [kind |-> "error", label |-> Registry[i].title,
                                         data_manager |-> NoObject])
                           ELSE AddPage(h, Registry[i].title, made.widget)
            IN  AddPages(next, i + 1, broken, dm)

\* add_calculator_pages: the loop, then add_fallback_page (the "welcome"
\* page) if self.pages is still empty.
AddCalculatorPages(h, broken, dm) ==
    LET looped == AddPages(h, 1, broken, dm)
    IN  IF Len(looped.pages) = 0
           THEN AddPage(looped, "welcome",
                        [kind |-> "welcome", label |-> "welcome", data_manager |-> NoObject])
           ELSE looped

\* ChemicalCalculationsWidget(): the singleton is fetched, setup_ui fills the
\* hub and selects row 0 if there is one.  Rows and stack indexes count from
\* 0 as in Qt; -1 is "none".
ConstructHub(broken) ==
    /\ IF instance = NoObject THEN Construction(None) ELSE UNCHANGED singletonVars
    /\ LET filled == AddCalculatorPages(
                        [nav_list |-> << >>, content_stack |-> << >>, pages |-> << >>],
                        broken, instance')
       IN  hub' = [nav_list |-> filled.nav_list, content_stack |-> filled.content_stack,
                   pages |-> filled.pages,
                   current |-> IF Len(filled.nav_list) > 0 THEN 0 ELSE -1]
    /\ last' = Call("ChemicalCalculationsWidget", broken, FALSE, None)
    /\ emitted' = << >>
    /\ UNCHANGED << clockVars, tableVars, historyVars, panels, files, shell, mode_combo, tab_widget, hydrant >>

\* The user selects navigation row i: currentRowChanged is connected to
\* content_stack.setCurrentIndex.
SelectRow(i) ==
    /\ i < Len(hub.nav_list)
    /\ hub' = [hub EXCEPT !.current = i]
    /\ last' = Call("setCurrentRow", i, FALSE, None)
    /\ emitted' = << >>
    /\ UNCHANGED << singletonVars, clockVars, tableVars, historyVars, panels, files, shell,
                    mode_combo, tab_widget, hydrant >>

(***************************************************************************)
(* The shell window (main.py, TofuApp): construction and closeEvent.        *)
(* Whether a module loads, and whether its widget has a save_data hook, is  *)
(* the environment's choice; two of the tabs are modelled.                  *)
(***************************************************************************)
\* modules_config, in order.
ModuleTabs == << "calculations", "notes" >>

\* The methods class DataManager defines.
DataManagerMethods ==
    {"get_instance", "get_project_info", "update_project_info", "get_report_counter",
     "update_report_counter", "get_next_report_number", "get_settings", "update_settings",
     "get_equipment_data", "add_equipment", "update_equipment", "delete_equipment",
     "get_equipment_by_id", "get_equipment_by_unique_code", "get_equipment_name_mapping",
     "add_equipment_name_mapping", "remove_equipment_name_mapping", "get_english_name",
     "get_materials", "add_material", "get_msds_documents", "add_msds_document",
     "get_projects", "add_project", "close"}

\* TofuApp(): the singleton is fetched, create_modules keeps in self.modules
\* the modules that loaded (a module that failed gets an error tab and is
\* not kept), the clock timer is started.
ConstructShell(loaded, hooks) ==
    /\ shell.time_timer = "none"
    /\ IF instance = NoObject THEN Construction(None) ELSE UNCHANGED singletonVars
    /\ shell' = [time_timer |-> "running",
                 modules |-> [i \in 1..Len(SelectSeq(ModuleTabs, LAMBDA m : m \in loaded)) |->
                                 LET m == SelectSeq(ModuleTabs, LAMBDA x : x \in loaded)[i]
                                 IN  [name |-> m, save_data |-> m \in hooks]],
                 accepted |-> FALSE]
    /\ last' = Call("TofuApp", [loaded |-> loaded, hooks |-> hooks], FALSE, None)
    /\ emitted' = << >>
    /\ UNCHANGED << clockVars, tableVars, historyVars, panels, files, hub, mode_combo, tab_widget, hydrant >>

\* closeEvent: time_timer.stop(); widget.save_data() of every kept module
\* that has one, each inside its own try; self.data_manager._save_data()
\* inside a try (an AttributeError, the class defining no such method); then
\* event.accept().  The calls made are recorded in order; raising is the
\* set of modules whose hook raises.
CloseEvent(raising) ==
    /\ shell.time_timer = "running"
    /\ shell' = [shell EXCEPT !.time_timer = "stopped", !.accepted = TRUE]
    /\ LET hooked == SelectSeq(shell.modules, LAMBDA m : m.save_data)
       IN  last' = [op |-> "closeEvent", arg |-> raising, raised |-> FALSE, ret |-> None,
                    trace |->
                       << [call |-> "time_timer.stop", on |-> "shell", raised |-> FALSE] >>
                       \o [i \in 1..Len(hooked) |->
                              [call |-> "save_data", on |-> hooked[i].name,
                               raised |-> hooked[i].name \in raising]]
                       \o << [call |-> "_save_data", on |-> "data_manager",
                              raised |-> "_save_data" \notin DataManagerMethods],
                             [call |-> "event.accept", on |-> "shell", raised |-> FALSE] >>]
    /\ emitted' = << >>
    /\ UNCHANGED << singletonVars, clockVars, tableVars, historyVars, panels, files, hub,
                    mode_combo, tab_widget, hydrant >>

(***************************************************************************)
(* The process-design manager (process_design_manager.py): construction.    *)
(* Of a demonstration row the columns the tables model are kept; design     *)
(* pressures are in tenths.                                                 *)
(***************************************************************************)
DemoMaterials ==
    << [material_id |-> "M-001", name |-> "methanol"],
       [material_id |-> "M-002", name |-> "water"],
       [material_id |-> "M-003", name |-> "carbon dioxide"] >>

DemoEquipment ==
    << [equipment_id |-> << "E", "Q", "-", "0", "0", "1" >>, name |-> "reactor R-101",
        type |-> "reactor", unique_code |-> "R-101", design_pressure |-> IntValue(50)],
       [equipment_id |-> << "E", "Q", "-", "0", "0", "2" >>, name |-> "column C-101",
        type |-> "column", unique_code |-> "C-101", design_pressure |-> IntValue(5)] >>

\* _load_demo_materials: add_material for each demonstration material.
RECURSIVE LoadDemoMaterials(_, _)
LoadDemoMaterials(rows, ds) ==
    IF ds = << >> THEN rows
    ELSE LoadDemoMaterials(Append(rows, MaterialRow(rows, Head(ds))), Tail(ds))

\* _load_demo_equipment: add_equipment for each demonstration record, from
\* clock reading t on (the ids are given, no uuid is drawn).
RECURSIVE LoadDemoEquipment(_, _, _)
LoadDemoEquipment(tbl, ds, t) ==
    IF ds = << >> THEN tbl
    ELSE LoadDemoEquipment(
            InsertOrReplace(tbl, EquipmentRow(Stamped(Head(ds), 0, t))),
            Tail(ds), t + ClockReads(Head(ds)))

\* A variant that loads the demonstration materials whatever the table holds.
InitDemoMaterials_Always(rows) == LoadDemoMaterials(rows, DemoMaterials)

\* _init_demo_data, first half: if not get_all_materials(): load them.
InitDemoMaterials(rows) ==
    IF rows = << >> THEN LoadDemoMaterials(rows, DemoMaterials) ELSE rows

\* ProcessDesignManager(): the singleton is fetched, then _init_demo_data.
\* Without an open connection get_materials raises, _init_demo_data catches
\* it and nothing is loaded.
ConstructManager ==
    /\ now <= MaxClock
    /\ IF instance = NoObject THEN Construction(None) ELSE UNCHANGED singletonVars
    /\ IF conn' = "open"
          THEN /\ materials' = InitDemoMaterials(materials)
               /\ IF equipment = {}
                     THEN /\ equipment' = LoadDemoEquipment(equipment, DemoEquipment, now)
                          /\ now' = now + ClockReads(DemoEquipment[1])
                                         + ClockReads(DemoEquipment[2])
                          /\ emitted' = [i \in 1..Len(DemoEquipment) |-> "equipment"]
                     ELSE /\ emitted' = << >>
                          /\ UNCHANGED << equipment, now >>
          ELSE /\ emitted' = << >>
               /\ UNCHANGED << materials, equipment, now >>
    /\ last' = Call("ProcessDesignManager", None, FALSE, None)
    /\ UNCHANGED << today, project_info, report_counter, settings, msds_documents,
                    projects, equipment_name_mapping, historyVars, appVars >>

(***************************************************************************)
(* The process-design widget (process_design_widget.py): the import of the  *)
(* six sub-tab classes and create_tabs.  The classes themselves are the     *)
(* environment: which names the tabs package cannot deliver, and which      *)
(* classes raise when constructed.                                          *)
(***************************************************************************)
\* At most this many sub-tabs are unimportable, and at most this many raise
\* when constructed.
MaxBroken == 2

\* tabs_to_create: the class names, in order.
SubTabs ==
    << "EquipmentListTab", "ProcessFlowDiagramTab", "MaterialDatabaseTab",
       "MSDSManagerTab", "HeatBalanceTab", "MassBalanceTab" >>

\* The module's one `from .tabs import (...)` inside one try: the names bound
\* to a class afterwards.  The statement raises ImportError as soon as one
\* name cannot be delivered, and the handler sets all six names to None.
ImportTabs(unimportable) ==
    IF unimportable # {} THEN {} ELSE {SubTabs[i] : i \in DOMAIN SubTabs}

\* create_tabs: for each entry, create_single_tab if its name is bound to a
\* class, create_error_tab with the exception's text if that raises, and
\* create_error_tab with "<class name> import failed" if the name is None.
\* Every iteration adds exactly one tab.
CreateTabs(classes, failing) ==
    [i \in DOMAIN SubTabs |->
        IF SubTabs[i] \notin classes
           THEN [kind |-> "error", name |-> SubTabs[i], detail |-> "import failed"]
        ELSE IF SubTabs[i] \in failing
           THEN [kind |-> "error", name |-> SubTabs[i], detail |-> "exception"]
        ELSE [kind |-> "tab", name |-> SubTabs[i], detail |-> ""]]

\* The module is imported and ProcessDesignWidget() constructed (the manager
\* it takes is the module-level one, made when process_design_manager was
\* imported).
ConstructWidget(unimportable, failing) ==
    /\ tab_widget' = CreateTabs(ImportTabs(unimportable), failing)
    /\ last' = Call("ProcessDesignWidget",
                    [unimportable |-> unimportable, failing |-> failing], FALSE, None)
    /\ emitted' = << >>
    /\ UNCHANGED << singletonVars, clockVars, tableVars, historyVars, panels, files, hub,
                    shell, mode_combo, hydrant >>

(***************************************************************************)
(* The process-design data layer over the singleton: DataAdapter            *)
(* (data_adapter.py) with the models of data_models.py, and the material    *)
(* methods of ProcessDesignManager.  Of a model the fields that reach a     *)
(* modelled column are kept, and equipment_type.                            *)
(***************************************************************************)
\* The UnifiedEquipment objects a caller may hold (created_at is set when
\* the object is made).
EquipmentModels ==
    [equipment_id : {E1}, name : {"tank", "pump"}, equipment_type : {"", "reactor"},
     unique_code : {"U1"}, design_pressure : {IntValue(16)}, created_at : {0}]

\* UnifiedEquipment.to_data_manager_dict: equipment_type goes out under the
\* key "type", and the marker "_type" is added.
ToDataManagerDict(m) ==
    [k \in {"equipment_id", "name", "type", "unique_code", "design_pressure",
            "created_at", "_type"} |->
        CASE k = "type" -> m.equipment_type
          [] k = "_type" -> "UnifiedEquipment"
          [] OTHER -> m[k]]

\* UnifiedEquipment.from_data_manager: equipment_type is data.get('type', '').
FromDataManager(data) ==
    [equipment_id |-> data.equipment_id, name |-> data.name,
     equipment_type |-> DictGet(data, "type", ""), unique_code |-> data.unique_code,
     design_pressure |-> data.design_pressure, created_at |-> data.created_at]

\* DataAdapter.save_equipment: add_equipment(to_data_manager_dict()).  The
\* dict carries an id and created_at, so no id is generated and the clock is
\* read once.
SaveEquipment(m) ==
    /\ Constructed
    /\ now <= MaxClock
    /\ now' = now + 1
    /\ LET out == Stamped(ToDataManagerDict(m), CHOOSE u \in UuidPool : TRUE, now)
       IN  IF Usable
              THEN /\ equipment' = InsertOrReplace(equipment, EquipmentRow(out))
                   /\ emitted' = << "equipment" >>
                   /\ last' = Call("DataAdapter.save_equipment", m, FALSE, TRUE)
              ELSE /\ last' = Call("DataAdapter.save_equipment", m, FALSE, FALSE)
                   /\ emitted' = << >>
                   /\ UNCHANGED equipment
    /\ UNCHANGED << appVars, singletonVars, today, project_info, report_counter, settings,
                    materials, msds_documents, projects, equipment_name_mapping,
                    historyVars >>

\* DataAdapter.update_equipment: update_equipment(equipment_id,
\* to_data_manager_dict()) on the singleton, every key but equipment_id
\* going into the SET list.
AdapterUpdateEquipment(m) ==
    /\ Constructed
    /\ now <= MaxClock
    /\ now' = now + 1
    /\ LET d == ToDataManagerDict(m)
           upd == [k \in DOMAIN d \cup {"updated_at"} |->
                      IF k = "updated_at" THEN now
                      ELSE IF k = "design_pressure" THEN d[k].v ELSE d[k]]
           id == m.equipment_id
       IN  IF Usable /\ ~UpdateFails(equipment, id, upd)
                     /\ ~NotFound(Cardinality(Matching(equipment, id)))
              THEN /\ equipment' = Updated(equipment, id, upd)
                   /\ emitted' = << "equipment" >>
                   /\ last' = Call("DataAdapter.update_equipment", m, FALSE, TRUE)
              ELSE /\ last' = Call("DataAdapter.update_equipment", m, FALSE, FALSE)
                   /\ emitted' = << >>
                   /\ UNCHANGED equipment
    /\ UNCHANGED << appVars, singletonVars, today, project_info, report_counter, settings,
                    materials, msds_documents, projects, equipment_name_mapping,
                    historyVars >>

\* DataAdapter.get_equipment_by_id: the row as a model, or None; found tells
\* which.  The read is not inside a try.
AdapterGetEquipmentById(id) ==
    /\ Constructed
    /\ last' = IF ~Usable
                  THEN [op |-> "DataAdapter.get_equipment_by_id", arg |-> id,
                        raised |-> TRUE, ret |-> None, found |-> FALSE]
               ELSE IF Matching(equipment, id) = {}
                  THEN [op |-> "DataAdapter.get_equipment_by_id", arg |-> id,
                        raised |-> FALSE, ret |-> None, found |-> FALSE]
               ELSE [op |-> "DataAdapter.get_equipment_by_id", arg |-> id,
                     raised |-> FALSE, ret |-> FromDataManager(CHOOSE r \in Matching(equipment, id) : TRUE),
                     found |-> TRUE]
    /\ emitted' = << >>
    /\ UNCHANGED << appVars, singletonVars, clockVars, tableVars, historyVars >>

\* DataEntity.from_dict on ProcessProject: cls(**data) without "_type"; a key
\* that is no field of the dataclass (DataEntity's fields included) raises
\* TypeError.
FromDictFails(data) ==
    LET fields == {"uid", "created_at", "updated_at", "created_by", "updated_by",
                   "project_id", "name", "description", "status", "start_date",
                   "end_date", "manager", "members"}
    IN  \E k \in DOMAIN data \ {"_type"} : k \notin fields

\* DataAdapter.get_all_projects: the rows of get_projects that from_dict
\* converts; a row whose conversion raises is reported and left out.
GetAllProjects(rows) == SelectSeq(rows, LAMBDA r : ~FromDictFails(r))

\* DataAdapter.get_data_stats: the lengths of get_all_materials,
\* get_all_equipment, get_all_msds and get_all_projects (from_data_manager
\* reads with dict.get and converts every row of the first three).
GetDataStats ==
    /\ Constructed
    /\ last' = IF Usable
                  THEN Call("DataAdapter.get_data_stats", None, FALSE,
                            [materials |-> Len(materials),
                             equipment |-> Cardinality(equipment),
                             msds |-> Len(msds_documents),
                             projects |-> Len(GetAllProjects(projects))])
                  ELSE Call("DataAdapter.get_data_stats", None, TRUE, None)
    /\ emitted' = << >>
    /\ UNCHANGED << appVars, singletonVars, clockVars, tableVars, historyVars >>

\* The material dicts a caller may pass to ProcessDesignManager.save_material.
SavedMaterialArgs == [material_id : {"M-001", "M-002"}, name : {"water"}]

\* ProcessDesignManager.save_material: add_material on the singleton (name
\* and properties are stored), then material_changed, the manager's own
\* signal.
SaveMaterial(d) ==
    /\ Constructed
    /\ Len(materials) < MaxRows
    /\ IF Usable
          THEN /\ materials' = Append(materials, MaterialRow(materials, d))
               /\ last' = Call("save_material", d, FALSE, TRUE)
          ELSE /\ last' = Call("save_material", d, FALSE, FALSE)
               /\ UNCHANGED materials
    /\ emitted' = << >>
    /\ UNCHANGED << appVars, singletonVars, clockVars, project_info, report_counter, settings,
                    equipment, msds_documents, projects, equipment_name_mapping,
                    historyVars >>

\* ProcessDesignManager.get_material_by_id: the first row of get_materials
\* whose material.get('material_id') equals the id, or None.
GetMaterialById(x) ==
    /\ Constructed
    /\ LET hits == SelectSeq(materials, LAMBDA r : DictGet(r, "material_id", None) = x)
       IN  last' = IF ~Usable
                      THEN [op |-> "get_material_by_id", arg |-> x, raised |-> TRUE,
                            ret |-> None, found |-> FALSE]
                   ELSE IF hits = << >>
                      THEN [op |-> "get_material_by_id", arg |-> x, raised |-> FALSE,
                            ret |-> None, found |-> FALSE]
                   ELSE [op |-> "get_material_by_id", arg |-> x, raised |-> FALSE,
                         ret |-> Head(hits), found |-> TRUE]
    /\ emitted' = << >>
    /\ UNCHANGED << appVars, singletonVars, clockVars, tableVars, historyVars >>

(***************************************************************************)
(* Basket filter, the sizing steps of perform_design_calculation: the       *)
(* screen diameter is rounded up to 10 mm and the shell inner diameter is   *)
(* looked up.  The screen diameter (a float in the program) is taken in     *)
(* whole millimetres.                                                       *)
(***************************************************************************)
MaxScreen == 600

\* standard_diameters (condition value and standard diameter are equal).
StandardDiameters ==
    << 10, 15, 20, 25, 32, 40, 50, 65, 80, 100, 125, 150, 200, 250, 300, 350, 400, 450, 500 >>

\* round_value(value, 'dimension'): math.ceil(value / 10) * 10
RoundDimension(x) == ((x + 9) \div 10) * 10

\* A variant whose loop tests calc_value < condition_value.
GetFilterDiameterValue_Strict(screen_diameter_rounded) ==
    LET calc_value == screen_diameter_rounded + 60
        passing == {i \in DOMAIN StandardDiameters : calc_value < StandardDiameters[i]}
    IN  IF passing = {} THEN StandardDiameters[Len(StandardDiameters)]
        ELSE StandardDiameters[CHOOSE i \in passing : \A j \in passing : i <= j]

\* get_filter_diameter_value(screen_diameter_rounded): the for loop returns
\* the first entry that calc_value does not exceed; after the loop the last
\* entry is returned.
GetFilterDiameterValue(screen_diameter_rounded) ==
    LET calc_value == screen_diameter_rounded + 60
        passing == {i \in DOMAIN StandardDiameters : calc_value <= StandardDiameters[i]}
    IN  IF passing = {} THEN StandardDiameters[Len(StandardDiameters)]
        ELSE StandardDiameters[CHOOSE i \in passing : \A j \in passing : i <= j]

\* Steps 4 and 6 of perform_design_calculation for a screen diameter.
SizeFilter(screen_diameter) ==
    /\ LET screen_diameter_rounded == RoundDimension(screen_diameter)
       IN  last' = [op |-> "get_filter_diameter_value", arg |-> screen_diameter_rounded,
                    raised |-> FALSE,
                    ret |-> GetFilterDiameterValue(screen_diameter_rounded),
                    screen_diameter |-> screen_diameter]
    /\ emitted' = << >>
    /\ UNCHANGED << singletonVars, clockVars, tableVars, historyVars, appVars >>

(***************************************************************************)
(* The fire-hydrant calculator (fire_hydrant_calculator.py): the building   *)
(* type, the danger level it sets, the hose-stream count, the               *)
(* auto-parameter flag and the total flow a calculate shows.  The hose      *)
(* flow stays at its initial 5 L/s; factors are in tenths, flows in         *)
(* hundredths of L/s.  total_flow is -1 while nothing is shown.             *)
(***************************************************************************)
MaxGuns == 4

\* The items of building_type_combo.
BuildingTypes == {"civil", "industrial", "warehouse", "high-rise", "super-high-rise",
                  "underground"}

\* auto_calculate_parameters: the hose-stream count set for the type.
AutoGunCount(t) ==
    IF t \in {"high-rise", "super-high-rise"} THEN 4
    ELSE IF t = "warehouse" THEN 3
    ELSE 2

\* calculate_total_flow, in hundredths of L/s: flow_factors and danger_factors
\* are in tenths, min_flows in L/s.
CalculateTotalFlow(gun_count, gun_flow, building_type, danger_level) ==
    LET flow_factors ==
            [civil |-> 10, industrial |-> 12, warehouse |-> 15, underground |-> 12] @@
            ("high-rise" :> 13) @@ ("super-high-rise" :> 15)
        danger_factors == [light |-> 8, medium1 |-> 10, medium2 |-> 12, severe |-> 15]
        min_flows ==
            [civil |-> 10, industrial |-> 15, warehouse |-> 20, underground |-> 15] @@
            ("high-rise" :> 20) @@ ("super-high-rise" :> 30)
        total == gun_count * gun_flow * flow_factors[building_type]
                    * danger_factors[danger_level]
        least == 100 * min_flows[building_type]
    IN  IF total >= least THEN total ELSE least

\* The user picks another building type (currentTextChanged):
\* on_building_type_changed sets the danger level that goes with the type.
SelectBuildingType(t) ==
    /\ t # hydrant.building_type
    /\ hydrant' = [hydrant EXCEPT
                      !.building_type = t,
                      !.danger_level = IF t = "warehouse" THEN "severe"
                                       ELSE IF t \in {"industrial", "high-rise"}
                                          THEN "medium2"
                                       ELSE "medium1"]
    /\ last' = Call("setCurrentText", t, FALSE, None)
    /\ emitted' = << >>
    /\ UNCHANGED << singletonVars, clockVars, tableVars, historyVars, panels, files, hub,
                    shell, mode_combo, tab_widget >>

\* The user sets the hose-stream count or the auto-parameter flag.
EditHydrantForm(n, auto) ==
    /\ hydrant' = [hydrant EXCEPT !.gun_count = n, !.auto_calc = auto]
    /\ last' = Call("edit", [gun_count |-> n, auto_calc |-> auto], FALSE, None)
    /\ emitted' = << >>
    /\ UNCHANGED << singletonVars, clockVars, tableVars, historyVars, panels, files, hub,
                    shell, mode_combo, tab_widget >>

\* calculate_hydrant_system: the form is read into locals, then
\* auto_calculate_parameters writes the spin box if the flag is set, then
\* calculate_total_flow is given the locals, and the result is displayed.
CalculateHydrantSystem ==
    /\ LET gun_count == hydrant.gun_count
           total == CalculateTotalFlow(gun_count, hydrant.gun_flow,
                                       hydrant.building_type, hydrant.danger_level)
       IN  /\ hydrant' = [hydrant EXCEPT
                             !.gun_count = IF hydrant.auto_calc
                                              THEN AutoGunCount(hydrant.building_type)
                                              ELSE @,
                             !.total_flow = total]
           /\ last' = Call("calculate_hydrant_system", hydrant, FALSE, None)
    /\ emitted' = << >>
    /\ UNCHANGED << singletonVars, clockVars, tableVars, historyVars, panels, files, hub,
                    shell, mode_combo, tab_widget >>

(***************************************************************************)
(* Initial state: process start, over a database file that does not exist   *)
(* yet (CREATE TABLE IF NOT EXISTS then creates empty tables).              *)
(***************************************************************************)
Init ==
    /\ instance = NoObject
    /\ initialized = FALSE
    /\ objects = 0
    /\ db_file = None
    /\ conn = "none"
    /\ connects = 0
    /\ today = 1
    /\ now = 1
    /\ project_info = << >>
    /\ report_counter = << >>
    /\ settings = [k \in {} |-> << >>]
    /\ equipment = {}
    /\ materials = << >>
    /\ msds_documents = << >>
    /\ projects = << >>
    /\ equipment_name_mapping = [k \in {} |-> ""]
    /\ last = Call("start", None, FALSE, None)
    /\ emitted = << >>
    /\ calls = 0
    /\ pristine = TRUE
    /\ saved = [k \in {} |-> ""]
    /\ panels = [c \in Calculators |-> [result_text |-> << >>, selection_text |-> << >>]]
    /\ files = {}
    /\ hub = [nav_list |-> << >>, content_stack |-> << >>, pages |-> << >>, current |-> -1]
    /\ shell = [time_timer |-> "none", modules |-> << >>, accepted |-> FALSE]
    /\ mode_combo = 0
    /\ tab_widget = << >>
    /\ hydrant = [building_type |-> "civil", danger_level |-> "light", gun_count |-> 2,
                  gun_flow |-> 5, auto_calc |-> TRUE, total_flow |-> -1]

NextCounterOps ==
    \/ Lifecycle
    \/ NextDay
    \/ GetReportCounter
    \/ \E c \in CounterArgs : UpdateReportCounter(c)
    \/ \E p \in Prefixes : GetNextReportNumber(p)

SpecCounter == Init /\ [][NextCounterOps]_vars

NextProjectInfo ==
    \/ Lifecycle
    \/ GetProjectInfo
    \/ \E i \in ProjectInfoArgs : UpdateProjectInfo(i)

SpecProjectInfo == Init /\ [][NextProjectInfo]_vars

NextSettings ==
    \/ Lifecycle
    \/ GetSettings
    \/ \E m \in SettingsArgs : UpdateSettings(m)

SpecSettings == Init /\ [][NextSettings]_vars

NextEquipment ==
    \/ \E f \in DbFileArgs : Startup(f)
    \/ Close
    \/ GetEquipmentData
    \/ \E d \in EquipmentArgs, u \in UuidPool : AddEquipment(d, u)
    \/ \E id \in EquipmentIds, f \in UpdateArgs : UpdateEquipment(id, f)
    \/ \E id \in EquipmentIds : DeleteEquipment(id)

SpecEquipment == Init /\ [][NextEquipment]_vars

NextCatalog ==
    \/ \E f \in DbFileArgs : Startup(f)
    \/ Close
    \/ GetEquipmentNameMapping
    \/ \E cn \in ChineseNames : GetEnglishName(cn)
    \/ \E cn \in ChineseNames, en \in EnglishNames : AddEquipmentNameMapping(cn, en)
    \/ \E cn \in ChineseNames : RemoveEquipmentNameMapping(cn)
    \/ \E d \in MaterialArgs : AddMaterial(d)
    \/ \E d \in MsdsArgs : AddMsdsDocument(d)
    \/ \E d \in ProjectArgs : AddProject(d)
    \/ GetMaterials
    \/ GetMsdsDocuments
    \/ GetProjects

SpecCatalog == Init /\ [][NextCatalog]_vars

NextCalculate ==
    \/ \E m \in {0, 3} : SelectMode(m)
    \/ \E c \in Calculators : \E in \in Inputs(c) : Calculate(c, in)

SpecCalculate == Init /\ [][NextCalculate]_vars

NextCalculator ==
    \/ Startup(None)
    \/ Close
    \/ \E c \in Calculators : \E in \in Inputs(c) : Calculate(c, in)
    \/ \E c \in Calculators : \E d \in Dialogues(c) : GenerateReport(c, d)
    \/ \E c \in Calculators : \E d \in Dialogues(c) : \E p \in {"", "report.txt"} :
          DownloadTxtReport(c, d, p)

SpecCalculator == Init /\ [][NextCalculator]_vars

\* The heat-exchanger panel alone, with its mode selector.
NextHeatReport ==
    \/ Startup(None)
    \/ \E m \in {0, 3} : SelectMode(m)
    \/ \E in \in Inputs("heat") : Calculate("heat", in)
    \/ \E d \in Dialogues("heat") : GenerateReport("heat", d)

SpecHeatReport == Init /\ [][NextHeatReport]_vars


NextShell ==
    \/ \E broken \in SUBSET (1..Len(Registry)) : ConstructHub(broken)
    \/ \E i \in 0..(Len(Registry) - 1) : SelectRow(i)
    \/ \E loaded \in SUBSET {ModuleTabs[i] : i \in DOMAIN ModuleTabs} :
          \E hooks \in SUBSET loaded : ConstructShell(loaded, hooks)
    \/ \E raising \in SUBSET {shell.modules[i].name : i \in DOMAIN shell.modules} :
          CloseEvent(raising)

SpecShell == Init /\ [][NextShell]_vars

NextProcessDesign ==
    \/ \E f \in DbFileArgs : Startup(f)
    \/ Close
    \/ ConstructManager
    \/ \E d \in MaterialArgs : AddMaterial(d)
    \/ \E d \in FullEquipmentArgs, u \in UuidPool : AddEquipment(d, u)
    \/ \E id \in {E1} \cup {DemoEquipment[i].equipment_id : i \in DOMAIN DemoEquipment} :
          DeleteEquipment(id)

SpecProcessDesign == Init /\ [][NextProcessDesign]_vars

NextWidget ==
    LET some == {s \in SUBSET {SubTabs[i] : i \in DOMAIN SubTabs} :
                    Cardinality(s) <= MaxBroken}
    IN  \E unimportable \in some : \E failing \in some :
           ConstructWidget(unimportable, failing)

SpecWidget == Init /\ [][NextWidget]_vars

NextAdapter ==
    \/ Startup(None)
    \/ Close
    \/ \E m \in EquipmentModels : SaveEquipment(m)
    \/ \E m \in EquipmentModels : AdapterUpdateEquipment(m)
    \/ \E id \in {E1} : AdapterGetEquipmentById(id)
    \/ \E d \in SavedMaterialArgs : SaveMaterial(d)
    \/ \E x \in {d.material_id : d \in SavedMaterialArgs} : GetMaterialById(x)
    \/ \E d \in MsdsArgs : AddMsdsDocument(d)
    \/ \E d \in ProjectArgs : AddProject(d)
    \/ GetDataStats

SpecAdapter == Init /\ [][NextAdapter]_vars

NextFilterSizing == \E x \in 1..MaxScreen : SizeFilter(x)

SpecFilterSizing == Init /\ [][NextFilterSizing]_vars

NextHydrant ==
    \/ \E t \in BuildingTypes : SelectBuildingType(t)
    \/ \E n \in 1..MaxGuns : \E auto \in BOOLEAN : EditHydrantForm(n, auto)
    \/ CalculateHydrantSystem

SpecHydrant == Init /\ [][NextHydrant]_vars


(***************************************************************************)
(* Properties.                                                              *)
(***************************************************************************)
\* The number a sequence of decimal digits denotes.
RECURSIVE DigitsValue(_)
DigitsValue(s) ==
    IF s = << >> THEN 0 ELSE 10 * DigitsValue(SubSeq(s, 1, Len(s) - 1)) + s[Len(s)]

ReturnedReportNumber == last.op = "get_next_report_number" /\ ~last.raised

\* C1: starting from a store with no counter row and with the counter written
\* by get_next_report_number only, the n-th call made on a day returns the
\* caller's prefix, that day, and n in decimal, zero-padded to three digits;
\* the first call of a later day returns 001.
C1_ReportNumbering ==
    (ReturnedReportNumber /\ pristine) =>
        /\ last.ret.prefix = last.arg
        /\ last.ret.date = today
        /\ \A i \in DOMAIN last.ret.seq : last.ret.seq[i] \in 0..9
        /\ DigitsValue(last.ret.seq) = calls
        /\ Len(last.ret.seq) >= 3
        /\ (Len(last.ret.seq) > 3 => last.ret.seq[1] # 0)

\* The tenth call of a later day is answered 010.
C1_Witness ==
    /\ ReturnedReportNumber
    /\ pristine
    /\ today > 1
    /\ last.ret.seq = << 0, 1, 0 >>

WroteCounter ==
    \/ last.op = "update_report_counter" /\ last.ret = TRUE
    \/ ReturnedReportNumber

\* C2 as stated: the report_counter table holds exactly one row in every
\* state of the constructed singleton, right after construction included.
C2_ExactlyOneRow == (Constructed /\ Usable) => Len(report_counter) = 1

\* C2, amended: the report_counter table never holds more than one row, and
\* holds exactly one after an update_report_counter call that returned true
\* or a get_next_report_number call that returned, and ever after a direct
\* update_report_counter.
C2_AtMostOneRow ==
    /\ Len(report_counter) <= 1
    /\ WroteCounter => Len(report_counter) = 1
    /\ ~pristine => Len(report_counter) = 1

\* A report number drawn after the counter was set directly: the row was
\* replaced, not added to.
C2_Witness ==
    /\ ReturnedReportNumber
    /\ ~pristine
    /\ Len(report_counter) = 1
    /\ report_counter[1].count = 3

\* C3: project_info never holds more than one row, and get_project_info
\* returns the four fields of the last successful update_project_info, a
\* field that update did not carry as the empty text; all four are empty
\* when no update was made.
C3_ProjectInfoLastWrite ==
    /\ Len(project_info) <= 1
    /\ (last.op = "get_project_info" /\ ~last.raised) =>
          /\ DOMAIN last.ret = ProjectFields
          /\ \A k \in ProjectFields :
                last.ret[k] = IF k \in DOMAIN saved THEN saved[k] ELSE ""

\* A read after an update that carried some fields and left others out.
C3_Witness ==
    /\ last.op = "get_project_info"
    /\ ~last.raised
    /\ DOMAIN saved = {"company_name", "project_name"}
    /\ saved["company_name"] = "ACME"
    /\ last.ret["company_name"] = "ACME"
    /\ last.ret["project_number"] = ""

ConstructionStep == last'.op \in {"DataManager", "get_instance"}

\* C4: every construction and every get_instance call returns the one
\* object, and once the singleton is initialized a construction neither
\* connects again nor takes the db_file it is given.
C4_SingletonIdentity ==
    [][ConstructionStep =>
          /\ last'.ret = instance'
          /\ instance # NoObject => instance' = instance
          /\ objects' = 1
          /\ initialized =>
                /\ connects' = connects
                /\ db_file' = db_file
                /\ conn' = conn]_vars

\* A second construction, naming another file, after the connection was
\* closed: the singleton still holds the first file and the closed connection.
C4_Witness ==
    /\ last.op = "DataManager"
    /\ last.arg \in BadDbFiles
    /\ last.ret = instance
    /\ db_file = DefaultDbFile
    /\ conn = "closed"
    /\ connects = 1

\* C5 as stated: no operation raises to its caller, whatever the state of
\* the connection.
C5_NoOperationRaises == ~last.raised

\* The number a text of decimal digits denotes.
RECURSIVE TextNumber(_)
TextNumber(chars) ==
    IF chars = << >>
       THEN 0
       ELSE 10 * TextNumber(SubSeq(chars, 1, Len(chars) - 1))
            + (CHOOSE d \in 0..9 : DigitChars[d + 1] = chars[Len(chars)])

\* text is the string form of the value x.
IsStringForm(text, x) ==
    CASE x.t = "str"  -> text = x.v
      [] x.t = "int"  -> /\ \A i \in DOMAIN text : \E d \in 0..9 : DigitChars[d + 1] = text[i]
                         /\ TextNumber(text) = x.v
                         /\ (Len(text) > 1 => text[1] # "0")
      [] x.t = "bool" -> text = IF x.v THEN << "T", "r", "u", "e" >>
                                       ELSE << "F", "a", "l", "s", "e" >>

\* C10: once update_settings(m) has returned true, get_settings() returns a
\* map with exactly the keys of m, each mapped to the string form of its
\* value; no other key survives.
C10_SettingsReplaced ==
    (last.op = "update_settings" /\ last.ret = TRUE) =>
        LET got == ReadSettings(settings)
        IN  /\ DOMAIN got = DOMAIN last.arg
            /\ \A k \in DOMAIN got : IsStringForm(got[k], last.arg[k])

\* An update that carries one key only, with an integer value: the store
\* holds that key alone, as the decimal text.
C10_Witness ==
    /\ last.op = "update_settings"
    /\ last.ret = TRUE
    /\ DOMAIN last.arg = {"font_size"}
    /\ last.arg["font_size"] = IntValue(12)
    /\ DOMAIN settings = {"font_size"}
    /\ settings["font_size"] = << "1", "2" >>

\* The methods that write to the database and answer with a boolean.
MutatingOps ==
    {"update_project_info", "update_report_counter", "update_settings", "add_equipment",
     "update_equipment", "delete_equipment", "add_equipment_name_mapping",
     "remove_equipment_name_mapping", "add_material", "add_msds_document", "add_project"}

\* C6 as stated: every mutating operation that returns success, add_material,
\* add_msds_document and add_project included, emits exactly one data_changed
\* notification.
C6_EveryMutationNotifies ==
    (last.op \in MutatingOps /\ last.ret = TRUE) => Len(emitted) = 1

AddedEquipment(c) == c.op = "add_equipment" /\ c.ret = TRUE
HasId(c) == "equipment_id" \in DOMAIN c.arg /\ c.arg["equipment_id"] # << >>
RowOf(tbl, id) == CHOOSE r \in tbl : r.equipment_id = id

\* C7 as stated: two add_equipment calls in a row with the same explicit
\* equipment_id leave exactly one row with that id, which carries the second
\* call's fields, a later updated_at than after the first call, and the
\* created_at the first call stored.
C7_SecondSaveKeepsCreatedAt ==
    [][(/\ AddedEquipment(last) /\ HasId(last)
        /\ AddedEquipment(last') /\ HasId(last')
        /\ last.arg["equipment_id"] = last'.arg["equipment_id"])
       => LET id  == last'.arg["equipment_id"]
              old == RowOf(equipment, id)
              new == RowOf(equipment', id)
          IN  /\ Cardinality(Matching(equipment', id)) = 1
              /\ new.name = DictGet(last'.arg, "name", "")
              /\ new.unique_code = DictGet(last'.arg, "unique_code", "")
              /\ new.updated_at > old.updated_at
              /\ new.created_at = old.created_at]_vars

IsGeneratedId(id) ==
    /\ Len(id) = 11
    /\ SubSeq(id, 1, 3) = << "E", "Q", "_" >>
    /\ \A i \in 4..11 : \E d \in 1..16 : HexUpper[d] = id[i]

\* C8 as stated, for two calls whose generated ids differ: two add_equipment
\* calls in a row with records that carry no equipment_id each generate an id
\* of the form EQ_ and 8 uppercase hex characters, and leave both rows in the
\* table.
C8_TwoSavesTwoRows ==
    [][(/\ AddedEquipment(last) /\ ~HasId(last)
        /\ AddedEquipment(last') /\ ~HasId(last')
        /\ last.out["equipment_id"] # last'.out["equipment_id"])
       => /\ IsGeneratedId(last.out["equipment_id"])
          /\ IsGeneratedId(last'.out["equipment_id"])
          /\ Matching(equipment', last.out["equipment_id"]) # {}
          /\ Matching(equipment', last'.out["equipment_id"]) # {}]_vars

\* C9: update_equipment and delete_equipment, called with an id no row has,
\* return false, leave the equipment table as it was and emit no data_changed.
C9_NotFoundChangesNothing ==
    [][(/\ last'.op \in {"update_equipment", "delete_equipment"}
        /\ Matching(equipment, last'.arg.id) = {})
       => /\ last'.ret = FALSE
          /\ ~last'.raised
          /\ equipment' = equipment
          /\ emitted' = << >>]_vars

\* update_equipment answered false for an id that the table, which holds
\* other rows, does not hold, over an open connection.
C9_Witness ==
    /\ last.op = "update_equipment"
    /\ last.ret = FALSE
    /\ Usable
    /\ equipment # {}
    /\ Matching(equipment, last.arg.id) = {}
    /\ \A k \in DOMAIN last.arg.fields : k \in EquipmentColumns

(***************************************************************************)
(* Calculator panels and their reports.                                     *)
(***************************************************************************)
ReportOps == {"generate_report", "download_txt_report"}

\* The last dialog of the action was the project-info dialog, closed as how.
LastDialog(how) ==
    /\ last.got.shown # << >>
    /\ last.got.shown[Len(last.got.shown)] = how

\* C11 as stated: generate_report (alone or inside the TXT export) returns
\* no report and shows a warning while no calculate action has succeeded on
\* the panel (the panel is still empty); after a successful calculate it is
\* not refused, and once the project-info dialog is confirmed it returns the
\* header, the rendered body, the project-info section, the report-identity
\* section and the footer, in this order.
C11_ReportAfterCalculate ==
    last.op \in ReportOps =>
        LET c == last.arg.calc
            g == last.got
            body == panels[c].result_text \o panels[c].selection_text
        IN  IF panels[c].result_text = << >>
               THEN ~g.returned /\ g.shown = << "warning" >>
               ELSE /\ g.shown # << "warning" >>
                    /\ LastDialog("project_info: accepted") =>
                          /\ g.returned
                          /\ Len(g.report) = Len(body) + 4
                          /\ g.report[1].title = "header"
                          /\ SubSeq(g.report, 2, Len(body) + 1) = body
                          /\ g.report[Len(body) + 2].title = "project info"
                          /\ g.report[Len(body) + 3].title = "report identity"
                          /\ g.report[Len(body) + 4].title = "footer"

\* C12 as stated: when the project-info dialog is confirmed with a project
\* name, the stored ProjectInfo is the four header fields entered (blanks
\* around them removed), and these are the values returned.
C12_ConfirmedInfoStored ==
    (last.op \in ReportOps /\ LastDialog("project_info: accepted")) =>
        LET a == last.arg.answers[Len(last.arg.answers)]
            entered == [k \in ProjectFields |-> Strip(a[k])]
        IN  Strip(a.project_name) # << >> =>
               /\ project_info = << entered >>
               /\ last.got.returned
               /\ \A k \in ProjectFields :
                     k \in DOMAIN last.got.info /\ last.got.info[k] = entered[k]

\* C13: when the project-info dialog is cancelled, get_project_info returns
\* no value, generate_report returns no report, the export writes no file
\* and the stored ProjectInfo is unchanged.
C13_CancelChangesNothing ==
    [][(last'.op \in ReportOps /\ last'.got.shown # << >>
          /\ last'.got.shown[Len(last'.got.shown)] = "project_info: rejected") =>
            /\ ~last'.got.returned
            /\ ~last'.written
            /\ files' = files
            /\ project_info' = project_info]_vars

\* An export stopped by a cancelled dialog, over a stored ProjectInfo.
C13_Witness ==
    /\ last.op = "download_txt_report"
    /\ LastDialog("project_info: rejected")
    /\ project_info # << >>
    /\ files = {}

\* C14 as stated: the report number printed in the report-identity section
\* is the number get_next_report_number returned for that report (the last
\* one minted by the action), with the calculator's own prefix.
C14_PrintedNumberIsMinted ==
    (last.op \in ReportOps /\ last.got.returned) =>
        LET g == last.got
        IN  /\ g.minted # << >>
            /\ g.report[Len(g.report) - 1].body = g.minted[Len(g.minted)]
            /\ g.minted[Len(g.minted)].prefix = ReportPrefix[last.arg.calc]

\* The required numeric fields of the forms, and a text that is empty or 0.
RequiredNumeric ==
    [filter |-> {"flow_rate"}, heat |-> {"cold_flow", "hot_t2", "cold_t1"},
     area |-> {"value"}]

EmptyOrZero(chars) == Strip(chars) = << >> \/ Strip(chars) = << "0" >>

\* C15 as stated: a calculate action taken while a required numeric field
\* is empty or zero shows a warning and leaves the result panel unchanged.
C15_MissingFieldWarns ==
    [][(last'.op = "calculate"
          /\ \E k \in RequiredNumeric[last'.arg.calc] : EmptyOrZero(last'.arg.in[k])) =>
            /\ last'.shown = << "warning" >>
            /\ panels' = panels]_vars

\* The forms whose calculation runs into a fault: the heat exchanger in mode
\* 3 with a cold flow of 0 (division by zero), or, at the default flows, with a cold
\* inlet at the hot outlet's 60 (division by zero in the ratio) or above it
\* (logarithm of a negative ratio); the area calculator with a heat load of
\* 0 (division by zero).
Faulty(c, in) ==
    \/ /\ c = "heat"
       /\ mode_combo = 3
       /\ in.hot_t2 = << >>
       /\ \/ in.cold_flow = << "0" >>
          \/ in.cold_flow = << >> /\ in.cold_t1 \in {<< "6", "0" >>, << "7", "0" >>}
    \/ c = "area" /\ in.mode = "direct" /\ in.value = << "0" >>

C17_OnePagePerEntry ==
    last.op = "ChemicalCalculationsWidget" =>
        /\ ~last.raised
        /\ Len(hub.nav_list) = Len(Registry)
        /\ Len(hub.content_stack) = Len(Registry)
        /\ hub.pages = hub.content_stack
        /\ \A i \in DOMAIN Registry :
              /\ hub.nav_list[i] = Registry[i].title
              /\ hub.content_stack[i].label = Registry[i].calculator_name
              /\ hub.content_stack[i].kind =
                    IF i \in last.arg THEN "placeholder" ELSE "calculator"

\* A hub built while some entries fail and others do not.
C17_Witness ==
    /\ last.op = "ChemicalCalculationsWidget"
    /\ last.arg = {1, 3}
    /\ hub.content_stack[1].kind = "placeholder"
    /\ hub.content_stack[2].kind = "calculator"

\* The calls closeEvent made between the timer's stop and the flush.
HookCalls == SubSeq(last.trace, 2, Len(last.trace) - 2)

\* C18 as stated: on window close the shell stops the clock timer, invokes
\* the save hook of every loaded module that has one (a raising hook does
\* not stop the others), asks the persistence singleton to flush its state
\* (the call reaches a method of the singleton), and then accepts the close
\* event, in this order.
C18_CloseSequence ==
    last.op = "closeEvent" =>
        LET t == last.trace
            hooked == SelectSeq(shell.modules, LAMBDA m : m.save_data)
        IN  /\ t[1].call = "time_timer.stop"
            /\ shell.time_timer = "stopped"
            /\ Len(HookCalls) = Len(hooked)
            /\ \A i \in DOMAIN hooked :
                  HookCalls[i].call = "save_data" /\ HookCalls[i].on = hooked[i].name
            /\ t[Len(t) - 1].on = "data_manager"
            /\ ~t[Len(t) - 1].raised
            /\ t[Len(t)].call = "event.accept"
            /\ shell.accepted

C20_AllBrokenShowsWelcome ==
    (last.op = "ChemicalCalculationsWidget" /\ last.arg = DOMAIN Registry) =>
        /\ Len(hub.content_stack) = 1
        /\ Len(hub.nav_list) = 1
        /\ hub.content_stack[1].kind = "welcome"

(***************************************************************************)
(* The process-design widget and data layer, the filter sizing, the report  *)
(* header and the fire-hydrant calculator.                                  *)
(***************************************************************************)
\* C21 as stated: the process-design container ends up with six tabs; a
\* sub-tab whose import failed is a labelled error tab, and every other
\* sub-tab (whose class can be imported and constructs) is a normal tab.
C21_FailedImportIsolated ==
    last.op = "ProcessDesignWidget" =>
        /\ Len(tab_widget) = 6
        /\ \A i \in DOMAIN SubTabs :
              IF SubTabs[i] \in last.arg.unimportable
                 THEN tab_widget[i].kind = "error" /\ tab_widget[i].name = SubTabs[i]
                 ELSE SubTabs[i] \notin last.arg.failing => tab_widget[i].kind = "tab"

\* C22 as stated: get_data_stats returns, for materials, equipment, MSDS
\* documents and projects, the number of rows stored in the table.
C22_StatsCountRows ==
    (last.op = "DataAdapter.get_data_stats" /\ ~last.raised) =>
        /\ last.ret.materials = Len(materials)
        /\ last.ret.equipment = Cardinality(equipment)
        /\ last.ret.msds = Len(msds_documents)
        /\ last.ret.projects = Len(projects)

\* C23 as stated: a model saved through save_equipment and read back through
\* get_equipment_by_id has the equipment_type it was saved with.
C23_EquipmentTypeRoundTrip ==
    [][(/\ last.op = "DataAdapter.save_equipment"
        /\ last.ret = TRUE
        /\ last'.op = "DataAdapter.get_equipment_by_id"
        /\ last'.arg = last.arg.equipment_id)
       => /\ last'.found
          /\ last'.ret.equipment_type = last.arg.equipment_type]_vars

\* C24 as stated: for every rounded screen diameter d the shell inner
\* diameter chosen is the smallest entry of the standard table that is at
\* least d + 60.
C24_SmallestStandardAtOrAbove ==
    last.op = "get_filter_diameter_value" =>
        LET standard == {StandardDiameters[i] : i \in DOMAIN StandardDiameters}
        IN  /\ last.ret \in standard
            /\ last.ret >= last.arg + 60
            /\ \A s \in standard : s >= last.arg + 60 => last.ret <= s

\* C24 as amended: the shell inner diameter chosen for a rounded screen
\* diameter d is the smallest entry of the standard table that is at least
\* d + 60 mm if the table has one, and the largest entry, 500 mm, if d + 60
\* mm is above every entry.
C24_SmallestAtOrAboveElseLargest ==
    last.op = "get_filter_diameter_value" =>
        LET standard == {StandardDiameters[i] : i \in DOMAIN StandardDiameters}
            atOrAbove == {s \in standard : s >= last.arg + 60}
        IN  IF atOrAbove = {}
               THEN last.ret = 500
               ELSE /\ last.ret \in atOrAbove
                    /\ \A s \in atOrAbove : last.ret <= s

\* A screen of 441 to 450 mm is rounded to 450 mm, 510 mm is above the
\* table, and the shell chosen is 500 mm.
C24_Witness ==
    /\ last.op = "get_filter_diameter_value"
    /\ last.arg = 450
    /\ last.ret = 500

\* C25 as stated: DataAdapter.update_equipment for a model whose
\* equipment_id is stored (over an open connection) returns true, and the
\* stored row afterwards carries the model's name, design pressure and
\* unique_code.
C25_AdapterUpdateStores ==
    [][(/\ last'.op = "DataAdapter.update_equipment"
        /\ Usable
        /\ Matching(equipment, last'.arg.equipment_id) # {})
       => /\ last'.ret = TRUE
          /\ LET row == RowOf(equipment', last'.arg.equipment_id)
             IN  /\ row.name = last'.arg.name
                 /\ row.design_pressure = last'.arg.design_pressure.v
                 /\ row.unique_code = last'.arg.unique_code]_vars

\* C26 as stated: a project-info dialog that is opened and then cancelled
\* leaves the stored ReportCounter exactly as it was.
C26_CancelKeepsCounter ==
    [][(/\ last'.op \in ReportOps
        /\ last'.got.shown # << >>
        /\ last'.got.shown[Len(last'.got.shown)] = "project_info: rejected")
       => report_counter' = report_counter]_vars

\* C27 as stated: add_equipment for a record whose equipment_id is not yet
\* stored leaves every stored row present and unchanged, whatever
\* unique_code the record carries.
C27_AddKeepsOtherRows ==
    [][(/\ last'.op = "add_equipment"
        /\ Matching(equipment, last'.out["equipment_id"]) = {})
       => equipment \subseteq equipment']_vars

\* C28 as stated: the mode named in the header of a heat-exchanger report is
\* the mode named in the result body the report contains, also when the
\* mode selector was changed after the calculate action.
C28_HeaderModeIsBodyMode ==
    (last.op \in ReportOps /\ last.arg.calc = "heat" /\ last.got.returned) =>
        last.got.report[1].mode = last.got.report[2].mode

\* C29 as stated: a material saved through save_material with material_id X
\* is returned by a following get_material_by_id(X).
C29_SavedMaterialFound ==
    [][(/\ last.op = "save_material"
        /\ last.ret = TRUE
        /\ last'.op = "get_material_by_id"
        /\ last'.arg = last.arg.material_id)
       => last'.found]_vars

\* C30 as stated: with the auto-parameter flag set, the total flow a
\* calculate action shows is computed from the hose-stream count the
\* auto-calculation assigns for the building type, not from the count the
\* form held before the action.
C30_AutoCountDrivesFlow ==
    [][(last'.op = "calculate_hydrant_system" /\ hydrant.auto_calc)
       => hydrant'.total_flow =
             CalculateTotalFlow(AutoGunCount(hydrant.building_type), hydrant.gun_flow,
                                hydrant.building_type, hydrant.danger_level)]_vars

====
